---- MODULE Spec2Model ----
(***************************************************************************)
(* Response decomposition and platform transformation layer of the         *)
(* commerceai-pro agents (analyse, pages, contenu, publicite).              *)
(*                                                                         *)
(* Python strings are TLA+ strings, handled with Len, SubSeq and \o, so    *)
(* slicing, searching and splitting act on characters as in the source.    *)
(* Python dicts are functions whose DOMAIN is the set of keys present.     *)
(* Python floats are exact fractions [num, den].                           *)
(***************************************************************************)
EXTENDS Integers, Sequences, FiniteSets, TLC

VARIABLES op, arg, ret, connectors, sent, ncalls, store, ads

vars == <<op, arg, ret, connectors, sent, ncalls, store, ads>>

(***************************************************************************)
(* Bounds of the explored inputs.                                          *)
(***************************************************************************)
MaxContentLen == 300
MaxTagLen == 278
MaxTags == 2
MaxBudgetNum == 26
MaxGap == 24
MaxSections == 4

\* Calls made in a row on the one integration object of the content agent.
MaxCalls == 2

(***************************************************************************)
(* Python built-ins used by the source.                                    *)
(***************************************************************************)
Min(a, b) == IF a < b THEN a ELSE b

Max(a, b) == IF a > b THEN a ELSE b

\* s[i:j] with Python's handling of negative and out-of-range indices.
PySlice(s, i, j) ==
    LET n  == Len(s)
        lo == IF i < 0 THEN Max(n + i, 0) ELSE Min(i, n)
        hi == IF j < 0 THEN Max(n + j, 0) ELSE Min(j, n)
    IN IF lo < hi THEN SubSeq(s, lo + 1, hi) ELSE ""

\* s[:j]
PyPrefix(s, j) == PySlice(s, 0, j)

\* s[i:]
PySuffix(s, i) == PySlice(s, i, Len(s))

\* s.startswith(p)
StartsWith(s, p) == Len(p) <= Len(s) /\ SubSeq(s, 1, Len(p)) = p

\* s.find(p): the lowest 0-based index of p in s, or -1.
Find(s, p) ==
    LET At(i) == SubSeq(s, i + 1, i + Len(p)) = p
        Hits  == {i \in 0..(Len(s) - Len(p)) : At(i)}
    IN IF Hits = {} THEN -1 ELSE CHOOSE i \in Hits : \A j \in Hits : i <= j

\* p in s
Contains(s, p) == Find(s, p) # -1

UpperToLower ==
    [A |-> "a", B |-> "b", C |-> "c", D |-> "d", E |-> "e", F |-> "f",
     G |-> "g", H |-> "h", I |-> "i", J |-> "j", K |-> "k", L |-> "l",
     M |-> "m", N |-> "n", O |-> "o", P |-> "p", Q |-> "q", R |-> "r",
     S |-> "s", T |-> "t", U |-> "u", V |-> "v", W |-> "w", X |-> "x",
     Y |-> "y", Z |-> "z"]

RECURSIVE Lower(_)
\* s.lower()
Lower(s) ==
    IF Len(s) = 0 THEN ""
    ELSE IF Len(s) = 1
    THEN (IF s \in DOMAIN UpperToLower THEN UpperToLower[s] ELSE s)
    ELSE Lower(PyPrefix(s, Len(s) \div 2)) \o Lower(PySuffix(s, Len(s) \div 2))

RECURSIVE Join(_, _)
\* sep.join(list)
Join(sep, list) ==
    IF Len(list) = 0 THEN ""
    ELSE IF Len(list) = 1 THEN list[1]
    ELSE list[1] \o sep \o Join(sep, Tail(list))

\* d.get(k, default)
Get(d, k, default) == IF k \in DOMAIN d THEN d[k] ELSE default

\* int(x): truncation toward zero of the fraction a / b, b > 0.
PyInt(a, b) == IF a >= 0 THEN a \div b ELSE -((-a) \div b)

Rat(n, d) == [num |-> n, den |-> d]

RECURSIVE Repeat(_, _)
\* c * n
Repeat(c, n) ==
    IF n <= 0 THEN ""
    ELSE IF n = 1 THEN c
    ELSE Repeat(c, n \div 2) \o Repeat(c, n - (n \div 2))

\* The outcome of a call: not yet run, returned a value, or raised.
Pending == [pending |-> TRUE]

Returned(v) == [raised |-> FALSE, value |-> v]

Raised(e) == [raised |-> TRUE, error |-> e]

\* None where the source has Optional[dict]; an absent str is "".
None == [none |-> TRUE]

\* bool(d) of an Optional[dict]
Truthy(d) == d # None /\ DOMAIN d # {}

(***************************************************************************)
(* More Python built-ins, used by the response decomposition.              *)
(***************************************************************************)
Whitespace == {" ", "\n", "\t", "\r"}

CharAt(s, i) == SubSeq(s, i, i)

\* s.strip()
Strip(s) ==
    LET Inked == {i \in 1..Len(s) : CharAt(s, i) \notin Whitespace}
    IN IF Inked = {} THEN ""
       ELSE SubSeq(s, CHOOSE i \in Inked : \A j \in Inked : i <= j,
                      CHOOSE i \in Inked : \A j \in Inked : i >= j)

RECURSIVE SplitWs(_)
\* s.split(): the maximal runs of non-whitespace characters.
SplitWs(s) ==
    LET Inked  == {i \in 1..Len(s) : CharAt(s, i) \notin Whitespace}
        first  == CHOOSE i \in Inked : \A j \in Inked : i <= j
        Blanks == {i \in first..Len(s) : CharAt(s, i) \in Whitespace}
        stop   == IF Blanks = {} THEN Len(s) + 1
                  ELSE CHOOSE i \in Blanks : \A j \in Blanks : i <= j
    IN IF Inked = {} THEN <<>>
       ELSE <<SubSeq(s, first, stop - 1)>> \o SplitWs(PySuffix(s, stop - 1))

RECURSIVE SplitOn(_, _)
\* s.split(sep)
SplitOn(s, sep) ==
    LET i == Find(s, sep)
    IN IF i = -1 THEN <<s>>
       ELSE <<PyPrefix(s, i)>> \o SplitOn(PySuffix(s, i + Len(sep)), sep)

\* s.split(sep, 1)[0]
BeforeFirst(s, sep) ==
    LET i == Find(s, sep) IN IF i = -1 THEN s ELSE PyPrefix(s, i)

\* s.split(sep, 1)[1], for a separator that occurs in s
AfterFirst(s, sep) == PySuffix(s, Find(s, sep) + Len(sep))

DigitChars == <<"0", "1", "2", "3", "4", "5", "6", "7", "8", "9">>

IsDigitChar(c) == \E d \in 1..10 : DigitChars[d] = c

DigitValue(c) == (CHOOSE d \in 1..10 : DigitChars[d] = c) - 1

\* s.isdigit()
IsDigit(s) == Len(s) > 0 /\ \A i \in 1..Len(s) : IsDigitChar(CharAt(s, i))

RECURSIVE RemoveDots(_)
\* s.replace('.', '')
RemoveDots(s) ==
    IF Len(s) = 0 THEN ""
    ELSE (IF CharAt(s, 1) = "." THEN "" ELSE CharAt(s, 1)) \o RemoveDots(PySuffix(s, 1))

RECURSIVE DigitsToNat(_)
DigitsToNat(s) ==
    IF Len(s) = 0 THEN 0
    ELSE DigitsToNat(PyPrefix(s, Len(s) - 1)) * 10 + DigitValue(CharAt(s, Len(s)))

RECURSIVE Pow10(_)
Pow10(k) == IF k <= 0 THEN 1 ELSE 10 * Pow10(k - 1)

\* float(s) for a token of digits and dots: more than one dot is a ValueError.
PyFloat(s) ==
    LET Dots == {i \in 1..Len(s) : CharAt(s, i) = "."}
    IN IF Cardinality(Dots) > 1 THEN Raised("ValueError")
       ELSE IF Dots = {} THEN Returned(Rat(DigitsToNat(s), 1))
       ELSE LET dot == CHOOSE i \in Dots : TRUE
            IN Returned(Rat(DigitsToNat(RemoveDots(s)), Pow10(Len(s) - dot)))

RatLeq(a, b) == a.num * b.den <= b.num * a.den

\* seq[:n]
Take(seq, n) == SubSeq(seq, 1, Min(n, Len(seq)))

(***************************************************************************)
(* analyse/main.py: score and section extraction.                          *)
(***************************************************************************)
ScoreWindow == 30

ProductDefaultScore == 70

CheckoutDefaultScore == 65

\* float(next((s for s in score_text.split() if s.replace('.', '').isdigit()), default))
ExtractScore(analysis_text, default) ==
    LET score_match == Find(Lower(analysis_text), "score")
        score_text  == PySlice(analysis_text, score_match, score_match + ScoreWindow)
        numeric     == SelectSeq(SplitWs(score_text), LAMBDA t : IsDigit(RemoveDots(t)))
    IN IF Len(numeric) = 0 THEN Returned(Rat(default, 1)) ELSE PyFloat(numeric[1])

ClampLowOnly(score) == IF RatLeq(Rat(0, 1), score) THEN score ELSE Rat(0, 1)

\* min(max(score, 0), 100)
Clamp(score) ==
    LET low == IF RatLeq(Rat(0, 1), score) THEN score ELSE Rat(0, 1)
    IN IF RatLeq(low, Rat(100, 1)) THEN low ELSE Rat(100, 1)

SectionLinesKeepLabel(section, label) ==
    LET raw      == SplitOn(section, "\n")
        stripped == [i \in 1..Len(raw) |-> Strip(raw[i])]
    IN SelectSeq(stripped, LAMBDA l : Len(l) > 0)

\* [s.strip() for s in section.split("\n") if s.strip() and not s.strip().lower().startswith(label)]
SectionLines(section, label) ==
    LET raw      == SplitOn(section, "\n")
        stripped == [i \in 1..Len(raw) |-> Strip(raw[i])]
    IN SelectSeq(stripped, LAMBDA l : Len(l) > 0 /\ ~StartsWith(Lower(l), label))

\* The parsing common to both flows, lines 247-263 and 383-396.
ParseAnalysis(analysis_text, default) ==
    LET score    == ExtractScore(analysis_text, default)
        sections == SplitOn(analysis_text, "\n\n")
    IN IF score.raised THEN score
       ELSE IF Len(sections) < 4 THEN Raised("IndexError")
       ELSE Returned(
              [score |-> Clamp(score.value),
               strengths |-> Take(SectionLines(sections[2], "strength"), 3),
               weaknesses |-> Take(SectionLines(sections[3], "weakness"), 3),
               recommendations |-> Take(SectionLines(sections[4], "recommendation"), 5)])

analyze_product_listing(analysis_text, detailed, detailed_analysis) ==
    LET parsed == ParseAnalysis(analysis_text, ProductDefaultScore)
    IN IF parsed.raised \/ ~detailed THEN parsed
       ELSE Returned(parsed.value @@
                     [details |-> [advanced_suggestions |-> detailed_analysis]])

analyze_checkout_process(analysis_text, request) ==
    LET parsed == ParseAnalysis(analysis_text, CheckoutDefaultScore)
    IN IF parsed.raised THEN parsed
       ELSE Returned(parsed.value @@
                     [details |-> [payment_methods |-> Len(request.payment_methods),
                                   shipping_options |-> Len(request.shipping_options),
                                   checkout_steps |-> request.steps_count]])

(***************************************************************************)
(* pages/main.py: code-block extraction.  A TLA+ string cannot hold a      *)
(* backtick, so the three-backtick fence is written "~~~" throughout.      *)
(***************************************************************************)
Fence == "~~~"

Doctype == "<!DOCTYPE html>"

\* "<fence><lang>" in content and "<fence>" in content.split("<fence><lang>", 1)[1]
HasFencedBlock(content, lang) ==
    /\ Contains(content, Fence \o lang)
    /\ Contains(AfterFirst(content, Fence \o lang), Fence)

\* content.split("<fence><lang>", 1)[1].split("<fence>", 1)[0].strip()
FencedBlock(content, lang) ==
    Strip(BeforeFirst(AfterFirst(content, Fence \o lang), Fence))

ExtractBlock(content, lang) ==
    IF HasFencedBlock(content, lang) THEN FencedBlock(content, lang) ELSE ""

ExtractJs(content) ==
    IF HasFencedBlock(content, "javascript") THEN FencedBlock(content, "javascript")
    ELSE IF HasFencedBlock(content, "js") THEN FencedBlock(content, "js")
    ELSE ""

HtmlSegmentNoFallback(html_content, content) == html_content

\* if not html_content: html_content = content
HtmlSegment(html_content, content) ==
    IF Len(html_content) = 0 THEN content ELSE html_content

EmbedCss(html_content, css_content) ==
    IF Len(css_content) > 0 /\ ~Contains(html_content, "<style>")
    THEN "<style>\n" \o css_content \o "\n</style>\n" \o html_content
    ELSE html_content

EmbedJs(html_content, js_content) ==
    IF Len(js_content) > 0 /\ ~Contains(html_content, "<script>")
    THEN html_content \o "\n<script>\n" \o js_content \o "\n</script>"
    ELSE html_content

\* s.capitalize(): first character upper-cased, the rest lower-cased.
Capitalize(s) ==
    LET c       == PyPrefix(s, 1)
        Uppers  == {u \in DOMAIN UpperToLower : UpperToLower[u] = c}
    IN (IF Uppers = {} THEN c ELSE CHOOSE u \in Uppers : TRUE) \o Lower(PySuffix(s, 1))

Skeleton(html_content, request) ==
    "<!DOCTYPE html>\n<html lang=\"en\">\n<head>\n    <meta charset=\"UTF-8\">\n"
    \o "    <meta name=\"viewport\" content=\"width=device-width, initial-scale=1.0\">\n"
    \o "    <title>" \o request.business_name \o " - "
    \o Capitalize(request.page_type) \o " Page</title>\n</head>\n<body>\n"
    \o html_content \o "\n</body>\n</html>"

WrapDocument(html_content, request) ==
    IF ~Contains(html_content, Doctype) THEN Skeleton(html_content, request)
    ELSE html_content

generate_page_content(content, request) ==
    LET css_content == ExtractBlock(content, "css")
        js_content  == ExtractJs(content)
        segment     == HtmlSegment(ExtractBlock(content, "html"), content)
        embedded    == EmbedJs(EmbedCss(segment, css_content), js_content)
    IN Returned([html |-> WrapDocument(embedded, request),
                 css |-> css_content,
                 js |-> js_content])

(***************************************************************************)
(* contenu/platform_integration.py: content transforms.                    *)
(***************************************************************************)
TwitterLimit == 280

HasItems(d, k) == k \in DOMAIN d /\ Len(d[k]) > 0

WithMedia(result, content_data) ==
    IF HasItems(content_data, "media_urls")
    THEN result @@ [media |-> content_data.media_urls]
    ELSE result

TruncateForTwitter(content, hashtags) ==
    IF Len(content) + Len(hashtags) + 2 > TwitterLimit
    THEN PyPrefix(content, TwitterLimit - Len(hashtags) - 5) \o "..."
    ELSE content

_transform_for_twitter(content_data) ==
    LET content  == Get(content_data, "content", "")
        hashtags == Join(" ", Get(content_data, "hashtags", <<>>))
        cut      == TruncateForTwitter(content, hashtags)
        text     == IF Len(hashtags) > 0 THEN cut \o "\n" \o hashtags ELSE cut
    IN WithMedia([text |-> text], content_data)

WithHashtags(text, sep, content_data) ==
    IF HasItems(content_data, "hashtags")
    THEN text \o sep \o Join(" ", content_data.hashtags)
    ELSE text

_transform_for_meta(specific_platform, content_data) ==
    LET message == WithHashtags(Get(content_data, "content", ""), "\n\n", content_data)
        base    == [message |-> message, platform |-> specific_platform]
        linked  == IF HasItems(content_data, "link")
                   THEN base @@ [link |-> content_data.link] ELSE base
    IN WithMedia(linked, content_data)

_transform_for_linkedin(content_data) ==
    LET text   == WithHashtags(Get(content_data, "content", ""), "\n\n", content_data)
        base   == [text |-> text, visibility |-> "PUBLIC"]
        linked == IF HasItems(content_data, "link")
                  THEN base @@ [article_link |->
                          [url |-> content_data.link,
                           title |-> Get(content_data, "title", ""),
                           description |-> Get(content_data, "meta_description", "")]]
                  ELSE base
    IN WithMedia(linked, content_data)

_transform_for_tiktok(content_data) ==
    LET caption == WithHashtags(Get(content_data, "content", ""), "\n", content_data)
        base    == [caption |-> caption]
    IN IF HasItems(content_data, "video_url")
       THEN base @@ [video_url |-> content_data.video_url] ELSE base

_transform_for_shopify(content_data) ==
    LET content_type == Get(content_data, "content_type", "")
    IN IF content_type = "product_description"
       THEN [product |->
               [title |-> Get(content_data, "title", ""),
                body_html |-> Get(content_data, "content", ""),
                vendor |-> Get(content_data, "business_name", ""),
                product_type |-> Get(content_data, "topic", ""),
                tags |-> Get(content_data, "keywords", <<>>)]]
       ELSE IF content_type = "blog_post"
       THEN [article |->
               [title |-> Get(content_data, "title", ""),
                body_html |-> Get(content_data, "content", ""),
                author |-> Get(content_data, "business_name", ""),
                tags |-> Get(content_data, "keywords", <<>>),
                summary_html |-> Get(content_data, "meta_description", "")]]
       ELSE [content |-> Get(content_data, "content", ""),
             title |-> Get(content_data, "title", ""),
             original_data |-> content_data]

\* A value of another type where the source expects a str.  A TLA+ value
\* carries no type tag, so a Python int n in a list of strings is "<int n>".
NotAString(n) == "<int " \o n \o ">"

\* isinstance(v, str)
IsStr(v) == ~StartsWith(v, "<int ")

\* " ".join(list) raises TypeError when an item is not a str.
JoinRaises(list) == \E i \in 1..Len(list) : ~IsStr(list[i])

\* The per-platform transform raises (TypeError in str.join).
ContentTransformRaises(p, content_data) ==
    IF p \in {"facebook", "instagram", "meta", "linkedin", "tiktok"}
    THEN HasItems(content_data, "hashtags") /\ JoinRaises(content_data.hashtags)
    ELSE IF p = "twitter" \/ p = "x"
    THEN JoinRaises(Get(content_data, "hashtags", <<>>))
    ELSE FALSE

ContentDispatchBare(p, content_data) ==
    IF p \in {"facebook", "instagram", "meta"}
    THEN _transform_for_meta(p, content_data)
    ELSE IF p = "twitter" \/ p = "x"
    THEN _transform_for_twitter(content_data)
    ELSE IF p = "linkedin" THEN _transform_for_linkedin(content_data)
    ELSE IF p = "tiktok" THEN _transform_for_tiktok(content_data)
    ELSE IF p = "shopify" THEN _transform_for_shopify(content_data)
    ELSE content_data

\* The if/elif chain on platform.lower(), p being platform.lower().
ContentDispatch(p, content_data) ==
    IF p \in {"facebook", "instagram", "meta"}
    THEN _transform_for_meta(p, content_data)
    ELSE IF p = "twitter" \/ p = "x"
    THEN _transform_for_twitter(content_data)
    ELSE IF p = "linkedin" THEN _transform_for_linkedin(content_data)
    ELSE IF p = "tiktok" THEN _transform_for_tiktok(content_data)
    ELSE IF p = "shopify" THEN _transform_for_shopify(content_data)
    ELSE [text |-> Get(content_data, "content", ""),
          title |-> Get(content_data, "title", ""),
          original_data |-> content_data]

transform_content_for_platform_cased(platform, content_data) ==
    IF ContentTransformRaises(platform, content_data) THEN content_data
    ELSE ContentDispatch(platform, content_data)

\* An exception of the transform is caught and the input returned in its place.
transform_content_for_platform(platform, content_data) ==
    IF ContentTransformRaises(Lower(platform), content_data) THEN content_data
    ELSE ContentDispatch(Lower(platform), content_data)

(***************************************************************************)
(* publicite/platform_integration.py: campaign transforms.                 *)
(***************************************************************************)
MetaObjectiveMap ==
    [awareness |-> "BRAND_AWARENESS", traffic |-> "TRAFFIC",
     engagement |-> "ENGAGEMENT", leads |-> "LEAD_GENERATION",
     conversions |-> "CONVERSIONS", sales |-> "SALES"]

GoogleObjectiveMap ==
    [awareness |-> "DISPLAY", traffic |-> "SEARCH", engagement |-> "DISPLAY",
     leads |-> "SEARCH", conversions |-> "SEARCH", sales |-> "SHOPPING"]

_map_gender_nodefault(gender) ==
    IF gender = "" \/ gender = "all" THEN <<1, 2>>
    ELSE IF gender = "male" THEN <<1>>
    ELSE IF gender = "female" THEN <<2>>
    ELSE <<>>

\* gender is "" for None, which is what an absent key gives.
_map_gender(gender) ==
    IF gender = "" \/ gender = "all" THEN <<1, 2>>
    ELSE IF gender = "male" THEN <<1>>
    ELSE IF gender = "female" THEN <<2>>
    ELSE <<1, 2>>

MapCityKeepUnit(city) ==
    [key |-> Get(city, "key", Get(city, "name", "None")),
     radius |-> Get(city, "radius", 10),
     distance_unit |-> Get(city, "distance_unit", "mile")]

MapCity(city) ==
    [key |-> Get(city, "key", Get(city, "name", "None")),
     radius |-> Get(city, "radius", 10),
     distance_unit |-> "mile"]

_map_locations(locations) ==
    LET countries == IF "countries" \in DOMAIN locations
                     THEN [countries |-> locations.countries] ELSE <<>>
        cities    == IF "cities" \in DOMAIN locations
                     THEN [cities |-> [i \in 1..Len(locations.cities) |->
                                          MapCity(locations.cities[i])]]
                     ELSE <<>>
    IN countries @@ cities

MetaCents == 100

GoogleMicros == 1000000

BudgetUnitsFloored(campaign_data, factor) ==
    LET budget == Get(campaign_data, "budget", Rat(0, 1))
    IN (budget.num * factor) \div budget.den

\* int(campaign_data.get("budget", 0) * factor)
BudgetUnits(campaign_data, factor) ==
    LET budget == Get(campaign_data, "budget", Rat(0, 1))
    IN PyInt(budget.num * factor, budget.den)

_transform_to_meta_format_cased(campaign_data) ==
    LET target_audience == Get(campaign_data, "target_audience", <<>>)
    IN [name |-> Get(campaign_data, "name", "None"),
        objective |-> Get(MetaObjectiveMap,
                          Get(campaign_data, "objective", ""),
                          "CONVERSIONS"),
        status |-> "PAUSED",
        daily_budget |-> BudgetUnits(campaign_data, MetaCents),
        targeting |->
          [age_min |-> Get(target_audience, "age_min", 18),
           age_max |-> Get(target_audience, "age_max", 65),
           genders |-> _map_gender(Get(target_audience, "gender", "")),
           geo_locations |-> _map_locations(Get(target_audience, "locations", <<>>)),
           interests |-> Get(target_audience, "interests", <<>>)]]

_transform_to_meta_format(campaign_data) ==
    LET target_audience == Get(campaign_data, "target_audience", <<>>)
    IN [name |-> Get(campaign_data, "name", "None"),
        objective |-> Get(MetaObjectiveMap,
                          Lower(Get(campaign_data, "objective", "")),
                          "CONVERSIONS"),
        status |-> "PAUSED",
        daily_budget |-> BudgetUnits(campaign_data, MetaCents),
        targeting |->
          [age_min |-> Get(target_audience, "age_min", 18),
           age_max |-> Get(target_audience, "age_max", 65),
           genders |-> _map_gender(Get(target_audience, "gender", "")),
           geo_locations |-> _map_locations(Get(target_audience, "locations", <<>>)),
           interests |-> Get(target_audience, "interests", <<>>)]]

_transform_to_google_format_cents(campaign_data) ==
    [name |-> Get(campaign_data, "name", "None"),
     advertising_channel_type |-> Get(GoogleObjectiveMap,
                                      Lower(Get(campaign_data, "objective", "")),
                                      "DISPLAY"),
     status |-> "PAUSED",
     campaign_budget |-> [amount_micros |-> BudgetUnits(campaign_data, MetaCents)]]

_transform_to_google_format(campaign_data) ==
    [name |-> Get(campaign_data, "name", "None"),
     advertising_channel_type |-> Get(GoogleObjectiveMap,
                                      Lower(Get(campaign_data, "objective", "")),
                                      "DISPLAY"),
     status |-> "PAUSED",
     campaign_budget |-> [amount_micros |-> BudgetUnits(campaign_data, GoogleMicros)]]

transform_internal_to_platform_format(platform, campaign_data) ==
    IF Lower(platform) = "meta" \/ Lower(platform) = "facebook"
    THEN _transform_to_meta_format(campaign_data)
    ELSE IF Lower(platform) = "google"
    THEN _transform_to_google_format(campaign_data)
    ELSE campaign_data

(***************************************************************************)
(* contenu/main.py: title, meta description and subject extraction from    *)
(* the generated text.  content is the text the completion returned.       *)
(***************************************************************************)
\* None where a str result may also be empty.
NoneStr == "<None>"

\* s.find(p, start), 0 <= start
FindFrom(s, p, start) ==
    LET i == Find(PySuffix(s, start), p)
    IN IF i = -1 \/ start > Len(s) THEN -1 ELSE i + start

RECURSIVE ReplaceAll(_, _, _)
\* s.replace(old, new), old not empty
ReplaceAll(s, old, new) ==
    LET i == Find(s, old)
    IN IF i = -1 THEN s
       ELSE PyPrefix(s, i) \o new \o ReplaceAll(PySuffix(s, i + Len(old)), old, new)

\* Where a for loop with a break stops: the lowest of the positions that
\* pass its test, 0 when none does.
FirstIndex(Hits) ==
    IF Hits = {} THEN 0 ELSE CHOOSE i \in Hits : \A j \in Hits : i <= j

\* text.split(':', 1)[1].strip() if ':' in text else text
LabelValue(text) ==
    IF Contains(text, ":") THEN Strip(AfterFirst(text, ":")) ELSE text

\* The first loop: the first line that is not blank and does not start with '#'.
FirstBodyLine(content) ==
    LET lines == SplitOn(content, "\n")
        i     == FirstIndex({k \in 1..Len(lines) :
                                Strip(lines[k]) # "" /\ ~StartsWith(lines[k], "#")})
    IN IF i = 0 THEN "" ELSE Strip(lines[i])

MetaSpanLine(content) ==
    LET meta_start == Find(Lower(content), "meta description")
        meta_end   == FindFrom(content, "\n", meta_start)
    IN IF meta_start = -1 THEN <<-1, -1>>
       ELSE <<meta_start, IF meta_end = -1 THEN Len(content) ELSE meta_end>>

\* [meta_start, meta_end) of the meta description section, or <<-1, -1>>.
MetaSpan(content) ==
    LET meta_start == Find(Lower(content), "meta description")
        meta_end   == FindFrom(content, "\n\n", meta_start)
    IN IF meta_start = -1 THEN <<-1, -1>>
       ELSE <<meta_start, IF meta_end = -1 THEN Len(content) ELSE meta_end>>

BlogLabels == <<"title:", "meta description:", "keywords:">>

\* '\n'.join(the lines that start with none of the labels).strip()
CleanLines(content, labels) ==
    Strip(Join("\n",
        SelectSeq(SplitOn(content, "\n"),
                  LAMBDA l : \A k \in 1..Len(labels) : ~StartsWith(Lower(l), labels[k]))))

\* The second loop: line.replace('# ', '').strip() of the first '# ' line.
HeadingTitle(content) ==
    LET lines == SplitOn(content, "\n")
        i     == FirstIndex({k \in 1..Len(lines) : StartsWith(lines[k], "# ")})
    IN IF i = 0 THEN "" ELSE Strip(ReplaceAll(lines[i], "# ", ""))

\* request.title is "" for None.
generate_blog_content(content, request) ==
    LET first_match == IF request.title = "" THEN FirstBodyLine(content) ELSE ""
        span        == MetaSpan(content)
        has_meta    == request.include_meta_description /\ span[1] # -1
        meta_description ==
            IF has_meta THEN LabelValue(PySlice(content, span[1], span[2])) ELSE NoneStr
        remaining   == IF has_meta
                       THEN PyPrefix(content, span[1]) \o PySuffix(content, span[2])
                       ELSE content
        title_match ==
            IF first_match = "" /\ request.title = ""
            THEN IF HeadingTitle(remaining) # "" THEN HeadingTitle(remaining)
                 ELSE "Blog Post About " \o request.topic
            ELSE first_match
    IN Returned([title |-> IF request.title # "" THEN request.title ELSE title_match,
                 content |-> CleanLines(remaining, BlogLabels),
                 meta_description |-> meta_description,
                 keywords |-> request.keywords])

SubjectEndParagraph(content, subject_start) ==
    LET subject_end == FindFrom(content, "\n\n", subject_start)
    IN IF subject_end = -1 THEN Len(content) ELSE subject_end

\* content.find('\n', subject_start), len(content) when there is none
SubjectEnd(content, subject_start) ==
    LET subject_end == FindFrom(content, "\n", subject_start)
    IN IF subject_end = -1 THEN Len(content) ELSE subject_end

\* request.subject_line is "" for None.
generate_email_content_ai(content, request) ==
    LET subject_start == Find(Lower(content), "subject")
        scanned       == request.subject_line = "" /\ subject_start # -1
        subject_end   == SubjectEnd(content, subject_start)
        subject       == IF scanned
                         THEN LabelValue(PySlice(content, subject_start, subject_end))
                         ELSE request.subject_line
        remaining     == IF scanned
                         THEN PyPrefix(content, subject_start)
                              \o PySuffix(content, subject_end + 1)
                         ELSE content
    IN Returned([subject |-> IF subject # "" THEN subject
                             ELSE Capitalize(request.email_type) \o " Email: "
                                  \o request.topic,
                 content |-> CleanLines(remaining, <<"subject:">>)])

generate_social_content_always(content, request) ==
    Returned([content |-> content,
              hashtags |-> SelectSeq(SplitWs(content), LAMBDA word : StartsWith(word, "#"))])

\* [word for word in content.split() if word.startswith('#')] when asked for
generate_social_content(content, request) ==
    Returned([content |-> content,
              hashtags |-> IF request.include_hashtags
                           THEN SelectSeq(SplitWs(content),
                                          LAMBDA word : StartsWith(word, "#"))
                           ELSE <<>>])

\* The collections of the content agent's database and its files; the
\* time stamps the handlers write are left out.
EmptyStore ==
    [generated_content |-> <<>>, content_insights |-> <<>>,
     content_performance |-> <<>>, files |-> <<>>]

(***************************************************************************)
(* Inputs handed in by the callers.                                        *)
(***************************************************************************)
Tag(k) == "#" \o Repeat("t", k - 1)

TagLens == {2, 20, MaxTagLen}

HashtagLists ==
    UNION {[1..n -> {Tag(k) : k \in TagLens}] : n \in 0..MaxTags}

TwitterContents ==
    {[content |-> Repeat("a", n), hashtags |-> h] :
        n \in 0..MaxContentLen, h \in HashtagLists}

ContentRecords ==
    {[content |-> "New arrivals", title |-> "Launch", hashtags |-> <<"#new", "#shop">>,
      link |-> "https://acme.test/p", media_urls |-> <<"https://acme.test/a.png">>,
      content_type |-> "blog_post", meta_description |-> "All new"],
     [content |-> "Watch this", hashtags |-> <<>>, video_url |-> "https://acme.test/v.mp4",
      content_type |-> "product_description", keywords |-> <<"shoes">>],
     [title |-> "Only a title"]}

ContentPlatforms ==
    {"facebook", "Instagram", "META", "twitter", "X", "LinkedIn", "tiktok",
     "shopify", "pinterest"}

CampaignPlatforms ==
    {"meta", "Facebook", "instagram", "google", "GOOGLE", "tiktok"}

\* Binary fractions: floats that are exact, as are their products below.
BudgetDens == {1, 2, 128}

Budgets ==
    {Rat(n, d) : n \in (-MaxBudgetNum)..MaxBudgetNum, d \in BudgetDens}

Audiences ==
    {[age_min |-> 21, gender |-> "female",
      locations |-> [countries |-> <<"FR">>,
                     cities |-> <<[name |-> "Paris", distance_unit |-> "kilometer"]>>],
      interests |-> <<"shoes">>],
     [gender |-> "other", locations |-> [cities |-> <<[key |-> "k1", radius |-> 25]>>]],
     [gender |-> "male", age_max |-> 40],
     [gender |-> "all"],
     [gender |-> "Male"],
     [locations |-> [countries |-> <<"US", "CA">>]],
     [locations |-> [cities |-> <<[key |-> "k2", name |-> "Lyon", radius |-> 25,
                                   distance_unit |-> "kilometer"],
                                  [name |-> "Nice"]>>]],
     [locations |-> <<>>],
     <<>>}

Objectives == {"Sales", "reach"}

\* The keys of the objective table in several casings, and none of them.
TableObjectives ==
    {"awareness", "Traffic", "ENGAGEMENT", "leads", "Leads", "conversions", "sales",
     "SALES", "", "brand awareness"}

Campaign(o, b, t) ==
    [name |-> "c", objective |-> o, budget |-> b, start_date |-> "2024-01-01",
     target_audience |-> t, platform |-> "any", ad_creatives |-> <<>>]

\* Every budget with one audience, and every audience with one budget.
Campaigns ==
    {Campaign(o, b, <<>>) : o \in Objectives, b \in Budgets}
    \cup
    {Campaign(o, Rat(25, 2), t) : o \in Objectives, t \in Audiences}
    \cup
    {Campaign(o, Rat(3, 1), <<>>) : o \in TableObjectives}
    \cup
    {[name |-> "c", budget |-> Rat(3, 1), target_audience |-> <<>>]}

\* Replies of the language model to an analysis prompt.
ScoreTokens == {"85", "150", "8.5", "8.5.", "1.2.3", "-5", "85/100", "high", "007"}

ScoreGaps == {1, 23, MaxGap}

AnalysisIntros ==
    {"Looks good overall", "Rated 5", "This listing is rated at level 5"}
    \cup
    {w \o ":" \o Repeat(" ", g) \o t \o " of 100" :
        w \in {"score", "Conversion Score"}, g \in ScoreGaps, t \in ScoreTokens}

SectionBodies ==
    {"5",
     "Strengths:\n- Clear title\n  \n - Fair price \n- Fast\n- Nice",
     "RECOMMENDATIONS\n1\n2\n\t3\n4\n5\n6\nweakness: slow pages\nStrength in numbers"}

SectionLists == UNION {[1..n -> SectionBodies] : n \in 0..MaxSections}

ShortSectionLists == {[i \in 1..n |-> "5"] : n \in 0..MaxSections}

\* Every intro with every number of sections, and two intros with every section list.
AnalysisTexts ==
    {Join("\n\n", <<i>> \o l) : i \in AnalysisIntros, l \in ShortSectionLists}
    \cup
    {Join("\n\n", <<i>> \o l) :
        i \in {"Looks good overall", "Score: 85 of 100"}, l \in SectionLists}

CheckoutRequests ==
    {[payment_methods |-> <<"card", "paypal">>, shipping_options |-> <<"standard">>,
      steps_count |-> 3]}

\* Replies of the language model to a page-generation prompt.
HtmlBodies ==
    {"<h1>Hi</h1>",
     "<!DOCTYPE html>\n<html><body><h1>Hi</h1></body></html>",
     "<!DOCTYPE html>\n<html><head><style>h1{}</style></head><body><script>go()</script></body></html>",
     "<html><head><style>h1{}</style></head><body><h1>Hi</h1></body></html>",
     "<!doctype html><p>Hi</p>"}

HtmlParts ==
    {"", "~~~html\n~~~\n", "~~~html\n<h1>Hi</h1>\n"}
    \cup {"~~~html\n" \o b \o "\n~~~\n" : b \in HtmlBodies}

CssParts == {"", "~~~css\nh1 { color: red; }\n~~~\n", "~~~css\n~~~\n"}

JsParts ==
    {"", "~~~javascript\ngo();\n~~~\n", "~~~js\ngo();\n~~~\n", "~~~javascript\n~~~\n",
     "~~~javascript\ngo();\n"}

PageBlobs ==
    {"", "  \n", "<p>Plain reply</p>", "<!DOCTYPE html><p>Plain reply</p>"}
    \cup
    {pre \o h \o c \o j :
        pre \in {"", "Here is the page:\n"}, h \in HtmlParts, c \in CssParts, j \in JsParts}

PageRequests ==
    {[business_name |-> "Acme", page_type |-> t] : t \in {"landing", "aboutUs"}}

(***************************************************************************)
(* State machine.  A behaviour is one call of the layer: Init is the call   *)
(* as the caller issued it (operation and arguments, no result yet), and    *)
(* each action is one operation running to its return or to its raise.      *)
(***************************************************************************)
\* A record whose hashtags hold an int where a str is expected.
BadHashtagRecords ==
    {[content |-> "Sale", hashtags |-> <<"#sale", NotAString("42")>>]}

\* What the gateway may answer, as _make_api_request hands it on.
InitializeResponses ==
    {None, <<>>, [connector_id |-> ""], [connector_id |-> "conn-1"]}

\* None for a failed request, else the JSON body; a post may come without id.
PublishResponses ==
    {None, <<>>, [success |-> TRUE], [id |-> "p1", post_url |-> "https://t.test/p1"]}

IntegrationPlatforms == {"twitter", "Facebook"}

IntegrationCalls ==
    {[op |-> "initialize_connector",
      arg |-> [platform |-> p, credentials |-> [token |-> "t"]]] :
        p \in IntegrationPlatforms}
    \cup
    {[op |-> "publish_content", arg |-> [platform |-> p, content_data |-> d]] :
        p \in IntegrationPlatforms \cup {"facebook"},
        d \in {[content |-> "Sale", hashtags |-> <<"#sale">>]} \cup BadHashtagRecords}
    \cup
    {[op |-> "schedule_content",
      arg |-> [platform |-> p, content_data |-> [content |-> "Sale"],
               schedule_time |-> "2025-01-01T09:00"]] :
        p \in IntegrationPlatforms}

MetricsResponses == {None, [likes |-> 3]}

DeleteResponses == {None, [success |-> FALSE], [success |-> TRUE]}

\* The connector table as set-credentials requests left it.
ConnectorTables ==
    {<<>>,
     [p \in {"twitter", "facebook", "linkedin", "tiktok"} |->
        [id |-> "conn-1", initialized |-> TRUE, credentials |-> [token |-> "t"]]]}

\* A record as the social post endpoint stores it ...
StoredPost ==
    [id |-> "c1", business_name |-> "Acme", content_type |-> "social_media_twitter",
     topic |-> "Shoes", title |-> "Twitter Post: Shoes",
     content |-> "Big sale today #sale #shoes", keywords |-> <<"shoes">>,
     hashtags |-> <<"#sale", "#shoes">>]

\* ... and as a publish or schedule request left it: published with the
\* post id, published by a gateway answer without id, scheduled.
StoredPosts ==
    {StoredPost,
     [platform_post_id |-> "p1", platform_post_url |-> "https://t.test/p1",
      published_to_platform |-> TRUE] @@ StoredPost,
     [platform_post_id |-> NoneStr, platform_post_url |-> NoneStr,
      published_to_platform |-> TRUE] @@ StoredPost,
     [platform_post_id |-> "p1", scheduled_for_platform |-> TRUE,
      scheduled_time |-> "2025-01-01T09:00"] @@ StoredPost}

ContentStores ==
    {EmptyStore} \cup
    {[EmptyStore EXCEPT !.generated_content = [c1 |-> post]] : post \in StoredPosts}

IdEndpoints ==
    {"publish_content_to_platform", "get_content_insights", "get_content_performance",
     "delete_content_from_platform", "sync_content_with_platform"}

EndpointOps == IdEndpoints \cup {"schedule_content_on_platform", "get_content"}

EndpointRequests(ids) ==
    {[op |-> e, arg |-> [platform |-> "twitter", content_id |-> i]] :
        e \in IdEndpoints, i \in ids}
    \cup
    {[op |-> "schedule_content_on_platform",
      arg |-> [platform |-> "twitter", content_id |-> i,
               schedule_time |-> "2025-01-01T09:00"]] : i \in ids}
    \cup
    {[op |-> "get_content", arg |-> [content_id |-> i]] : i \in ids}

\* The advertising agent's process: the connectors of its integration
\* object and the collections of its database.
EmptyAds == [connectors |-> <<>>, platform_credentials |-> <<>>, ad_campaigns |-> <<>>]

\* As earlier credential requests left them: nothing, credentials whose
\* connector is still to be initialised, credentials with their connector.
AdStates ==
    {EmptyAds,
     [EmptyAds EXCEPT !.platform_credentials = [facebook |-> [token |-> "t"]]],
     [EmptyAds EXCEPT !.platform_credentials = [facebook |-> [token |-> "t"]],
                      !.connectors = [facebook |-> "ad-conn-1"]]}

\* What requests.post gives the advertising agent: None for a request that
\* raised, else the status code with the text or the decoded body.
AdInitializeResponses ==
    {[status_code |-> 500, text |-> "error"],
     [status_code |-> 200, json |-> <<>>],
     [status_code |-> 200, json |-> [connector_id |-> "ad-conn-2"]],
     None}

AdCampaignResponses ==
    {None,
     [status_code |-> 500, text |-> "error"],
     [status_code |-> 200, json |-> <<>>],
     [status_code |-> 200, json |-> [status |-> "PAUSED"]],
     [status_code |-> 200, json |-> [id |-> "camp-1"]]}

\* The ObjectIds insert_one gives, in the order it gives them.
CampaignIds == <<"o1", "o2", "o3", "o4">>

CampaignRequests ==
    {[op |-> "create_platform_campaign",
      arg |-> [platform |-> p, campaign_data |-> Campaign("sales", Rat(3, 1), <<>>),
               publish_to_platform |-> pub]] :
        p \in {"facebook", "tiktok"}, pub \in BOOLEAN}

\* schedule_time is "" for None.
SocialPostRequests ==
    {[platform |-> p, topic |-> "Shoes", business_name |-> "Acme",
      keywords |-> <<"shoes">>, include_hashtags |-> h,
      publish_to_platform |-> pub, schedule_time |-> t] :
        p \in {"twitter", "facebook", "linkedin", "tiktok"}, h \in BOOLEAN,
        pub \in BOOLEAN, t \in {"", "2025-01-01T09:00"}}

SocialPostBlobs == {"no tags here", "Big sale today #sale #shoes", "#new shop #new"}

SocialPostCalls ==
    {[op |-> "generate_social_media_post", arg |-> [content |-> b, request |-> r]] :
        b \in SocialPostBlobs, r \in SocialPostRequests}

\* What uuid.uuid4() can give: an id no record has yet.
NewContentIds == {"u1", "u2"}

\* The operations served by the content agent's process, which find the
\* connectors and the database as earlier requests left them.
ServiceOps == EndpointOps \cup {"generate_social_media_post"}

\* c9 is an id no record has.
FirstRequests == EndpointRequests({"c1", "c9"}) \cup SocialPostCalls

FollowUpRequests == EndpointRequests({"c1"})

BlogBlobs ==
    {pre \o title \o body \o meta :
        pre   \in {"", "# C# for Shops\n", "## Guide\n", "# Spring Guide\n\n"},
        title \in {"", "Title: Spring Sale Tips\n", "title:   Deals \n"},
        body  \in {"", "Intro line\nMore text", "  \n# Tips # Tricks\n## Sub"},
        meta  \in {"", "\n\nMeta description: Save big\non shoes\n\nKeywords: a, b",
                   "\nmeta description only"}}

BlogRequests ==
    {[title |-> t, topic |-> "Shoes", include_meta_description |-> m,
      keywords |-> <<"shoes">>] : t \in {"", "Given Title"}, m \in BOOLEAN}

EmailBlobs ==
    {pre \o subject \o rest :
        pre     \in {"", "Hi team\n", "RE: "},
        subject \in {"", "Subject: Big sale", "SUBJECT LINE - Big sale", "subject:",
                     "Subject: Re: offer: 10%"},
        rest    \in {"", "\n\nDear customer,\nBuy now", "\nHello there\n\nBody",
                     "\nsubject: second\nBye"}}

EmailRequests ==
    {[email_type |-> "promotional", topic |-> "Shoes", subject_line |-> l] :
        l \in {"", "Given subject"}}

SocialBlobs ==
    {"", "no tags here", "Big sale today #sale #shoes", "#sale\n#Shoes\tnow! #sale",
     "Price is #1 in C# land#not # ", "New #new\n\n#shop  #new\r\n#shop"}

SocialPlatforms == {"twitter", "Facebook", "linkedin", "tiktok"}

SocialRequests ==
    {[platform |-> p, topic |-> "Shoes", include_hashtags |-> h] :
        p \in SocialPlatforms, h \in BOOLEAN}

Calls ==
    FirstRequests \cup CampaignRequests
    \cup
    {[op |-> "generate_social_content", arg |-> [content |-> b, request |-> r]] :
        b \in SocialBlobs, r \in SocialRequests}
    \cup
    {[op |-> "generate_blog_content", arg |-> [content |-> b, request |-> r]] :
        b \in BlogBlobs, r \in BlogRequests}
    \cup
    {[op |-> "generate_email_content_ai", arg |-> [content |-> b, request |-> r]] :
        b \in EmailBlobs, r \in EmailRequests}
    \cup
    IntegrationCalls
    \cup
    {[op |-> "transform_content", arg |-> [platform |-> p, content_data |-> d]] :
        p \in ContentPlatforms, d \in BadHashtagRecords}
    \cup
    {[op |-> "transform_content", arg |-> [platform |-> p, content_data |-> d]] :
        p \in {"twitter"}, d \in TwitterContents}
    \cup
    {[op |-> "transform_content", arg |-> [platform |-> p, content_data |-> d]] :
        p \in ContentPlatforms, d \in ContentRecords}
    \cup
    {[op |-> "transform_campaign", arg |-> [platform |-> p, campaign_data |-> c]] :
        p \in CampaignPlatforms, c \in Campaigns}
    \cup
    {[op |-> "analyze_product_listing",
      arg |-> [analysis_text |-> t, detailed |-> d, detailed_analysis |-> "Try A/B tests"]] :
        t \in AnalysisTexts, d \in BOOLEAN}
    \cup
    {[op |-> "analyze_checkout_process", arg |-> [analysis_text |-> t, request |-> r]] :
        t \in AnalysisTexts, r \in CheckoutRequests}
    \cup
    {[op |-> "generate_page_content", arg |-> [content |-> b, request |-> r]] :
        b \in PageBlobs, r \in PageRequests}

\* self.connectors = {} at construction and nothing has been sent yet.  A
\* request to an endpoint finds the connectors and the database as earlier
\* requests left them: ConnectorTables and ContentStores list such states.
Init ==
    /\ \E c \in Calls : op = c.op /\ arg = c.arg
    /\ ret = Pending
    /\ connectors \in (IF op \in ServiceOps THEN ConnectorTables ELSE {<<>>})
    /\ sent = <<>>
    /\ ncalls = 1
    /\ store \in (IF op \in ServiceOps THEN ContentStores ELSE {EmptyStore})
    /\ ads \in (IF op = "create_platform_campaign" THEN AdStates ELSE {EmptyAds})

\* requests.post(url, json=data) as _make_api_request issues it.
Post(url, data) == [method |-> "post", url |-> url, data |-> data]

\* sent keeps each request with the answer _make_api_request gave for it:
\* the decoded body, or None for a failed request.
Answered(requests, response) ==
    [i \in DOMAIN requests |-> requests[i] @@ [response |-> response]]

InitializeConnector ==
    /\ op = "initialize_connector"
    /\ ret = Pending
    /\ \E response \in InitializeResponses :
       /\ sent' = sent \o Answered(
                      <<Post("/api/integrations/" \o arg.platform \o "/initialize",
                             [credentials |-> arg.credentials])>>, response)
       /\ IF Truthy(response) /\ Get(response, "connector_id", "") # ""
          THEN /\ connectors' = (arg.platform :>
                                   [id |-> response.connector_id, initialized |-> TRUE,
                                    credentials |-> arg.credentials]) @@ connectors
               /\ ret' = Returned(response.connector_id)
          ELSE /\ ret' = Returned("")
               /\ UNCHANGED connectors
    /\ UNCHANGED <<op, arg, ncalls, store, ads>>

\* self.connectors.get(platform, {}).get("initialized", False)
Initialized(platform) == Get(Get(connectors, platform, <<>>), "initialized", FALSE)

\* What a method of the integration object does: its result and the
\* requests it hands to requests.*, in order.
Outcome(result, requests) == [ret |-> result, requests |-> requests]

publish_content_unchecked(platform, content_data, response) ==
    Outcome(IF Truthy(response) THEN Returned(response)
            ELSE Raised("Failed to publish content to " \o platform),
            <<Post("/api/integrations/" \o platform \o "/publish-content",
                   [connector_id |-> Get(Get(connectors, platform, <<>>), "id", ""),
                    content |-> transform_content_for_platform(platform, content_data)])>>)

\* response is what _make_api_request returns for the request, if it is made.
publish_content(platform, content_data, response) ==
    IF ~Initialized(platform)
    THEN Outcome(Raised("Connector for " \o platform \o " not initialized"), <<>>)
    ELSE Outcome(IF Truthy(response) THEN Returned(response)
                 ELSE Raised("Failed to publish content to " \o platform),
                 <<Post("/api/integrations/" \o platform \o "/publish-content",
                        [connector_id |-> connectors[platform].id,
                         content |-> transform_content_for_platform(platform,
                                                                    content_data)])>>)

schedule_content(platform, content_data, schedule_time, response) ==
    IF ~Initialized(platform)
    THEN Outcome(Raised("Connector for " \o platform \o " not initialized"), <<>>)
    ELSE Outcome(IF Truthy(response) THEN Returned(response)
                 ELSE Raised("Failed to schedule content for " \o platform),
                 <<Post("/api/integrations/" \o platform \o "/schedule-content",
                        [connector_id |-> connectors[platform].id,
                         content |-> transform_content_for_platform(platform,
                                                                    content_data),
                         schedule_time |-> schedule_time])>>)

PublishContent ==
    /\ op = "publish_content"
    /\ ret = Pending
    /\ \E response \in PublishResponses :
          LET done == publish_content(arg.platform, arg.content_data, response)
          IN ret' = done.ret /\ sent' = sent \o Answered(done.requests, response)
    /\ UNCHANGED <<op, arg, connectors, ncalls, store, ads>>

ScheduleContent ==
    /\ op = "schedule_content"
    /\ ret = Pending
    /\ \E response \in PublishResponses :
          LET done == schedule_content(arg.platform, arg.content_data,
                                       arg.schedule_time, response)
          IN ret' = done.ret /\ sent' = sent \o Answered(done.requests, response)
    /\ UNCHANGED <<op, arg, connectors, ncalls, store, ads>>

\* raise HTTPException(status_code=status, detail=detail)
HttpError(status, detail) ==
    [raised |-> TRUE, error |-> "HTTPException", status |-> status, detail |-> detail]

StatusText == (400 :> "400") @@ (404 :> "404") @@ (500 :> "500")

\* str(e) of the exception a failed call ended with
ErrorText(failed) ==
    IF "status" \in DOMAIN failed
    THEN StatusText[failed.status] \o ": " \o failed.detail
    ELSE failed.error

\* except Exception as e: raise HTTPException(status_code=500, detail=str(e))
AsServerError(result) ==
    IF result.raised THEN HttpError(500, ErrorText(result)) ELSE result

\* bool(v) of an Optional[str]
TruthyStr(v) == v # NoneStr /\ v # ""

\* db.generated_content.find_one({"id": content_id}) found a record
Found(content_id) == content_id \in DOMAIN store.generated_content

\* update_one({"id": content_id}, {"$set": fields})
SetFields(content_id, fields) ==
    [store EXCEPT !.generated_content =
        (content_id :> (fields @@ store.generated_content[content_id])) @@ @]

\* What a handler does: its answer, the requests it made, the store it leaves.
Handled(result, requests, stored) ==
    [ret |-> result, requests |-> requests, store |-> stored]

Rejected(status, detail) == Handled(HttpError(status, detail), <<>>, store)

\* The checks shared by insights, performance and delete, before any request.
NotOnPlatform(content) ==
    /\ ~Get(content, "published_to_platform", FALSE)
    /\ ~Get(content, "scheduled_for_platform", FALSE)

PlatformContentData(content) ==
    [content |-> Get(content, "content", ""),
     hashtags |-> Get(content, "hashtags", <<>>),
     title |-> Get(content, "title", ""),
     content_type |-> Get(content, "content_type", ""),
     business_name |-> Get(content, "business_name", ""),
     keywords |-> Get(content, "keywords", <<>>)]

\* platform_integration.connectors.get(platform, {}).get("id")
ConnectorId(platform) == Get(Get(connectors, platform, <<>>), "id", NoneStr)

Request(method, url, data) == [method |-> method, url |-> url, data |-> data]

publish_content_to_platform_inner(platform, content_id, response) ==
    IF ~Found(content_id) THEN Rejected(404, "Content not found")
    ELSE LET content == store.generated_content[content_id]
             done    == publish_content(platform, PlatformContentData(content), response)
         IN IF done.ret.raised THEN Handled(done.ret, done.requests, store)
            ELSE Handled(
                   Returned([success |-> TRUE,
                             message |-> "Content published to " \o platform,
                             platform_post_id |-> Get(response, "id", NoneStr),
                             platform_post_url |-> Get(response, "post_url", NoneStr)]),
                   done.requests,
                   SetFields(content_id,
                             [platform_post_id |-> Get(response, "id", NoneStr),
                              platform_post_url |-> Get(response, "post_url", NoneStr),
                              published_to_platform |-> TRUE]))

schedule_content_on_platform_inner(platform, content_id, schedule_time, response) ==
    IF ~Found(content_id) THEN Rejected(404, "Content not found")
    ELSE LET content == store.generated_content[content_id]
             done    == schedule_content(platform, PlatformContentData(content),
                                         schedule_time, response)
         IN IF done.ret.raised THEN Handled(done.ret, done.requests, store)
            ELSE Handled(
                   Returned([success |-> TRUE,
                             message |-> "Content scheduled on " \o platform \o " at "
                                         \o schedule_time,
                             platform_post_id |-> Get(response, "id", NoneStr),
                             scheduled_time |-> schedule_time]),
                   done.requests,
                   SetFields(content_id,
                             [platform_post_id |-> Get(response, "id", NoneStr),
                              scheduled_for_platform |-> TRUE,
                              scheduled_time |-> schedule_time]))

get_content_insights_inner(platform, content_id, response) ==
    IF ~Found(content_id) THEN Rejected(404, "Content not found")
    ELSE LET content == store.generated_content[content_id]
             post_id == Get(content, "platform_post_id", NoneStr)
             asked   == <<Request("get",
                                  "/api/integrations/" \o platform \o "/content-insights",
                                  [connector_id |-> ConnectorId(platform),
                                   post_id |-> post_id])>>
         IN IF NotOnPlatform(content)
            THEN Rejected(400, "Content has not been published or scheduled on this platform")
            ELSE IF ~TruthyStr(post_id)
            THEN Rejected(400, "No platform post ID found for this content")
            ELSE IF ~Truthy(response)
            THEN Handled(HttpError(500, "Failed to retrieve insights from " \o platform),
                         asked, store)
            ELSE Handled(Returned([success |-> TRUE, content_id |-> content_id,
                                   platform |-> platform, insights |-> response]),
                         asked,
                         [store EXCEPT !.content_insights =
                            (<<content_id, platform>> :>
                               [content_id |-> content_id, platform |-> platform,
                                platform_post_id |-> post_id, insights |-> response])
                            @@ @])

\* PlatformIntegration.get_content_performance
get_content_performance(platform, post_id, response) ==
    IF ~Initialized(platform)
    THEN Outcome(Raised("Connector for " \o platform \o " not initialized"), <<>>)
    ELSE Outcome(IF Truthy(response) THEN Returned(response)
                 ELSE Raised("Failed to retrieve performance metrics for post "
                             \o post_id \o " from " \o platform),
                 <<Request("get",
                           "/api/integrations/" \o platform \o "/content-performance",
                           [connector_id |-> connectors[platform].id,
                            post_id |-> post_id])>>)

get_content_performance_inner(platform, content_id, response) ==
    IF ~Found(content_id) THEN Rejected(404, "Content not found")
    ELSE LET content == store.generated_content[content_id]
             post_id == Get(content, "platform_post_id", NoneStr)
             done    == get_content_performance(platform, post_id, response)
         IN IF NotOnPlatform(content)
            THEN Rejected(400, "Content has not been published or scheduled on this platform")
            ELSE IF ~TruthyStr(post_id)
            THEN Rejected(400, "No platform post ID found for this content")
            ELSE IF done.ret.raised THEN Handled(done.ret, done.requests, store)
            ELSE Handled(Returned([success |-> TRUE, content_id |-> content_id,
                                   platform |-> platform, performance |-> response]),
                         done.requests,
                         [store EXCEPT !.content_performance =
                            (<<content_id, platform>> :>
                               [content_id |-> content_id, platform |-> platform,
                                platform_post_id |-> post_id, performance |-> response])
                            @@ @])

delete_content_from_platform_inner(platform, content_id, response) ==
    IF ~Found(content_id) THEN Rejected(404, "Content not found")
    ELSE LET content == store.generated_content[content_id]
             post_id == Get(content, "platform_post_id", NoneStr)
             asked   == <<Request("delete",
                                  "/api/integrations/" \o platform \o "/delete-content",
                                  [connector_id |-> ConnectorId(platform),
                                   post_id |-> post_id])>>
         IN IF NotOnPlatform(content)
            THEN Rejected(400, "Content has not been published or scheduled on this platform")
            ELSE IF ~TruthyStr(post_id)
            THEN Rejected(400, "No platform post ID found for this content")
            ELSE IF Truthy(response) /\ Get(response, "success", FALSE)
            THEN Handled(Returned([success |-> TRUE,
                                   message |-> "Content deleted from " \o platform,
                                   content_id |-> content_id]),
                         asked,
                         SetFields(content_id,
                                   [published_to_platform |-> FALSE,
                                    scheduled_for_platform |-> FALSE,
                                    deleted_from_platform |-> TRUE]))
            ELSE Handled(HttpError(500, "Failed to delete content from " \o platform),
                         asked, store)

sync_content_with_platform_inner(platform, content_id, response) ==
    IF ~Found(content_id) THEN Rejected(404, "Content not found")
    ELSE LET content == store.generated_content[content_id]
             data    == PlatformContentData(content)
             post_id == Get(content, "platform_post_id", NoneStr)
             asked   == <<Request("put",
                                  "/api/integrations/" \o platform \o "/update-content",
                                  [connector_id |-> ConnectorId(platform),
                                   content |-> [post_id |-> post_id] @@ data])>>
             done    == publish_content(platform, data, response)
         IN IF Get(content, "published_to_platform", FALSE) /\ TruthyStr(post_id)
            THEN IF Truthy(response)
                 THEN Handled(Returned([success |-> TRUE,
                                        message |-> "Content updated on " \o platform,
                                        platform_post_id |-> post_id,
                                        platform_post_url |->
                                            Get(content, "platform_post_url", NoneStr)]),
                              asked,
                              SetFields(content_id, [synced_with_platform |-> TRUE]))
                 ELSE Handled(HttpError(500, "Failed to update content on " \o platform),
                              asked, store)
            ELSE IF done.ret.raised THEN Handled(done.ret, done.requests, store)
            ELSE Handled(
                   Returned([success |-> TRUE,
                             message |-> "Content published to " \o platform,
                             platform_post_id |-> Get(response, "id", NoneStr),
                             platform_post_url |-> Get(response, "post_url", NoneStr)]),
                   done.requests,
                   SetFields(content_id,
                             [platform_post_id |-> Get(response, "id", NoneStr),
                              platform_post_url |-> Get(response, "post_url", NoneStr),
                              published_to_platform |-> TRUE,
                              synced_with_platform |-> TRUE]))

\* The handler's outer `except Exception`: whatever was raised inside,
\* an HTTPException included, leaves as a 500 whose detail is str(e).
Guarded(handled) == [handled EXCEPT !.ret = AsServerError(@)]

publish_content_to_platform(platform, content_id, response) ==
    Guarded(publish_content_to_platform_inner(platform, content_id, response))

schedule_content_on_platform(platform, content_id, schedule_time, response) ==
    Guarded(schedule_content_on_platform_inner(platform, content_id, schedule_time,
                                               response))

get_content_insights(platform, content_id, response) ==
    Guarded(get_content_insights_inner(platform, content_id, response))

get_content_performance_endpoint(platform, content_id, response) ==
    Guarded(get_content_performance_inner(platform, content_id, response))

delete_content_from_platform_published_only(platform, content_id, response) ==
    LET handled == Guarded(delete_content_from_platform_inner(platform, content_id,
                                                              response))
    IN IF handled.ret.raised THEN handled
       ELSE [handled EXCEPT !.store =
                SetFields(content_id, [published_to_platform |-> FALSE,
                                       deleted_from_platform |-> TRUE])]

delete_content_from_platform(platform, content_id, response) ==
    Guarded(delete_content_from_platform_inner(platform, content_id, response))

sync_content_with_platform(platform, content_id, response) ==
    Guarded(sync_content_with_platform_inner(platform, content_id, response))

\* `except HTTPException: raise` comes first here: the 404 leaves as it is.
get_content(content_id) ==
    IF ~Found(content_id) THEN Rejected(404, "Content not found")
    ELSE Handled(Returned(store.generated_content[content_id]), <<>>, store)

\* The social post endpoint, with the post generate_social_content made of
\* the model's text, the id uuid4 gave and the gateway's answer.  A failure
\* of the publish or schedule call is caught and logged.
generate_social_media_post_inner(content, request, content_id, response) ==
    LET generated == generate_social_content(content, request).value
        title     == Capitalize(request.platform) \o " Post: " \o request.topic
        file_path == "generated_content/" \o content_id \o ".md"
        record    == [id |-> content_id, business_name |-> request.business_name,
                      content_type |-> "social_media_" \o request.platform,
                      topic |-> request.topic, title |-> title,
                      content |-> generated.content,
                      keywords |-> Get(generated, "keywords", request.keywords),
                      hashtags |-> generated.hashtags]
        written   == [store EXCEPT
                        !.files = (file_path :> ("# " \o title \o "\n\n"
                                                 \o generated.content)) @@ @,
                        !.generated_content = (content_id :> record) @@ @]
        data      == [content |-> generated.content, hashtags |-> generated.hashtags,
                      title |-> title, content_type |-> record.content_type,
                      business_name |-> request.business_name]
        done      == IF request.schedule_time # ""
                     THEN schedule_content(request.platform, data,
                                           request.schedule_time, response)
                     ELSE publish_content(request.platform, data, response)
        answered  == request.publish_to_platform /\ ~done.ret.raised
        post_id   == IF answered THEN Get(response, "id", NoneStr) ELSE NoneStr
        post_url  == IF answered THEN Get(response, "post_url", NoneStr) ELSE NoneStr
    IN Handled(
         Returned([success |-> TRUE, content_id |-> content_id,
                   platform |-> request.platform, content |-> generated.content,
                   hashtags |-> generated.hashtags, file_path |-> file_path,
                   published_to_platform |-> TruthyStr(post_id),
                   platform_post_id |-> post_id, platform_post_url |-> post_url,
                   scheduled_time |-> request.schedule_time]),
         IF request.publish_to_platform THEN done.requests ELSE <<>>,
         IF TruthyStr(post_id)
         THEN [written EXCEPT !.generated_content[content_id] =
                  [platform_post_id |-> post_id, platform_post_url |-> post_url,
                   published_to_platform |-> TRUE,
                   scheduled_time |-> request.schedule_time] @@ @]
         ELSE written)

generate_social_media_post_asked(content, request, content_id, response) ==
    LET handled == Guarded(generate_social_media_post_inner(content, request,
                                                            content_id, response))
    IN [handled EXCEPT !.ret.value.published_to_platform = request.publish_to_platform]

generate_social_media_post(content, request, content_id, response) ==
    Guarded(generate_social_media_post_inner(content, request, content_id, response))

\* One request to an endpoint: the answer, the requests to the gateway and
\* the store are what the handler leaves.
Serve(handled, response) ==
    /\ ret' = handled.ret
    /\ sent' = sent \o Answered(handled.requests, response)
    /\ store' = handled.store
    /\ UNCHANGED <<op, arg, connectors, ncalls, ads>>

PublishContentToPlatform ==
    /\ op = "publish_content_to_platform"
    /\ ret = Pending
    /\ \E response \in PublishResponses :
          Serve(publish_content_to_platform(arg.platform, arg.content_id, response),
                response)

ScheduleContentOnPlatform ==
    /\ op = "schedule_content_on_platform"
    /\ ret = Pending
    /\ \E response \in PublishResponses :
          Serve(schedule_content_on_platform(arg.platform, arg.content_id,
                                             arg.schedule_time, response),
                response)

GetContentInsights ==
    /\ op = "get_content_insights"
    /\ ret = Pending
    /\ \E response \in MetricsResponses :
          Serve(get_content_insights(arg.platform, arg.content_id, response),
                response)

GetContentPerformance ==
    /\ op = "get_content_performance"
    /\ ret = Pending
    /\ \E response \in MetricsResponses :
          Serve(get_content_performance_endpoint(arg.platform, arg.content_id, response),
                response)

DeleteContentFromPlatform ==
    /\ op = "delete_content_from_platform"
    /\ ret = Pending
    /\ \E response \in DeleteResponses :
          Serve(delete_content_from_platform(arg.platform, arg.content_id, response),
                response)

SyncContentWithPlatform ==
    /\ op = "sync_content_with_platform"
    /\ ret = Pending
    /\ \E response \in PublishResponses :
          Serve(sync_content_with_platform(arg.platform, arg.content_id, response),
                response)

GenerateSocialMediaPost ==
    /\ op = "generate_social_media_post"
    /\ ret = Pending
    /\ \E content_id \in NewContentIds \ DOMAIN store.generated_content,
          response \in PublishResponses :
          Serve(generate_social_media_post(arg.content, arg.request, content_id,
                                           response),
                response)

GetContent ==
    /\ op = "get_content"
    /\ ret = Pending
    /\ Serve(get_content(arg.content_id), None)

\* PlatformIntegration.initialize_connector of the advertising agent: the
\* connector id it returns and the table it leaves.  The id of the answer is
\* put in the table as it is, None included.
ad_initialize_connector(table, platform, response) ==
    IF response = None \/ response.status_code # 200
    THEN [connector_id |-> NoneStr, connectors |-> table]
    ELSE LET connector_id == Get(response.json, "connector_id", NoneStr)
         IN [connector_id |-> connector_id,
             connectors |-> (platform :> connector_id) @@ table]

\* PlatformIntegration.create_campaign of the advertising agent, with the
\* gateway's answers to the initialize request and to the campaign request,
\* if they are made: its result, the exchanges, the table it leaves.
create_campaign(platform, campaign_data, init_response, response) ==
    LET known   == Get(ads.connectors, platform, NoneStr)
        asks    == ~TruthyStr(known) /\ platform \in DOMAIN ads.platform_credentials
        init    == IF asks
                   THEN ad_initialize_connector(ads.connectors, platform, init_response)
                   ELSE [connector_id |-> known, connectors |-> ads.connectors]
        asked   == IF asks
                   THEN Answered(<<Post("/api/integrations/" \o platform \o "/initialize",
                                        ads.platform_credentials[platform])>>,
                                 init_response)
                   ELSE <<>>
        created == Answered(<<Post("/api/integrations/" \o platform \o "/campaigns",
                                   [connector_id |-> init.connector_id,
                                    campaign_data |-> campaign_data])>>,
                            response)
    IN IF ~TruthyStr(init.connector_id)
       THEN [ret |-> AsServerError(HttpError(400, "No connector initialized for "
                                                  \o platform)),
             requests |-> asked, connectors |-> init.connectors]
       ELSE [ret |-> IF response = None THEN AsServerError(Raised("ConnectionError"))
                     ELSE IF response.status_code # 200
                     THEN AsServerError(HttpError(response.status_code, response.text))
                     ELSE Returned(response.json),
             requests |-> asked \o created, connectors |-> init.connectors]

\* The campaign endpoint, with the ObjectId insert_one gave.  The record is
\* inserted before the campaign is sent, and a failure of create_campaign
\* leaves through the handler's `except Exception`.
create_platform_campaign(request, inserted_id, init_response, response) ==
    LET optimized == [request.campaign_data EXCEPT !.name = @ \o " (AI Optimized)"]
        platform_campaign ==
            transform_internal_to_platform_format(request.platform, optimized)
        record    == optimized @@ [platform_specific_data |-> platform_campaign]
        done      == create_campaign(request.platform, platform_campaign,
                                     init_response, response)
        answered  == request.publish_to_platform /\ ~done.ret.raised
                        /\ Truthy(done.ret.value)
        platform_campaign_id ==
            IF answered THEN Get(done.ret.value, "id", NoneStr) ELSE NoneStr
        left(stored) ==
            [connectors |-> IF request.publish_to_platform THEN done.connectors
                            ELSE ads.connectors,
             platform_credentials |-> ads.platform_credentials,
             ad_campaigns |-> (inserted_id :> stored) @@ ads.ad_campaigns]
    IN IF request.publish_to_platform /\ done.ret.raised
       THEN [ret |-> AsServerError(done.ret), requests |-> done.requests,
             ads |-> left(record)]
       ELSE [ret |-> Returned([campaign_id |-> inserted_id,
                               platform |-> request.platform,
                               platform_campaign_id |-> platform_campaign_id,
                               status |-> IF TruthyStr(platform_campaign_id)
                                          THEN "published" ELSE "draft",
                               details |-> platform_campaign]),
             requests |-> IF request.publish_to_platform THEN done.requests ELSE <<>>,
             ads |-> left(IF answered
                          THEN [platform_campaign_id |-> platform_campaign_id] @@ record
                          ELSE record)]

CreatePlatformCampaign ==
    /\ op = "create_platform_campaign"
    /\ ret = Pending
    /\ \E init_response \in AdInitializeResponses, response \in AdCampaignResponses :
          LET handled == create_platform_campaign(
                             arg, CampaignIds[Cardinality(DOMAIN ads.ad_campaigns) + 1],
                             init_response, response)
          IN /\ ret' = handled.ret
             /\ sent' = sent \o handled.requests
             /\ ads' = handled.ads
    /\ UNCHANGED <<op, arg, connectors, ncalls, store>>

\* The next request to the campaign endpoint, served by the same process.
NextCampaignRequest ==
    /\ op = "create_platform_campaign"
    /\ "raised" \in DOMAIN ret
    /\ ncalls < MaxCalls
    /\ \E c \in CampaignRequests : op' = c.op /\ arg' = c.arg
    /\ ret' = Pending
    /\ ncalls' = ncalls + 1
    /\ UNCHANGED <<connectors, sent, store, ads>>

\* The next request to the content endpoints, served by the same process.
NextRequest ==
    /\ op \in EndpointOps
    /\ "raised" \in DOMAIN ret
    /\ ncalls < MaxCalls
    /\ \E c \in FollowUpRequests : op' = c.op /\ arg' = c.arg
    /\ ret' = Pending
    /\ ncalls' = ncalls + 1
    /\ UNCHANGED <<connectors, sent, store, ads>>

\* The agent's endpoints share one integration object: after a call on it
\* has returned or raised, the next one finds the connectors it left.
NextCall ==
    /\ op \in {"initialize_connector", "publish_content", "schedule_content"}
    /\ "raised" \in DOMAIN ret
    /\ ncalls < MaxCalls
    /\ \E c \in IntegrationCalls : op' = c.op /\ arg' = c.arg
    /\ ret' = Pending
    /\ ncalls' = ncalls + 1
    /\ UNCHANGED <<connectors, sent, store, ads>>

TransformContentInPlace ==
    /\ op = "transform_content"
    /\ ret = Pending
    /\ ret' = Returned(transform_content_for_platform(arg.platform, arg.content_data))
    /\ arg' = [arg EXCEPT !.content_data =
                  [content |-> WithHashtags(Get(arg.content_data, "content", ""),
                                            "\n\n", arg.content_data)] @@ @]
    /\ UNCHANGED <<op, connectors, sent, ncalls, store, ads>>

TransformContent ==
    /\ op = "transform_content"
    /\ ret = Pending
    /\ ret' = Returned(transform_content_for_platform(arg.platform, arg.content_data))
    /\ UNCHANGED <<op, arg, connectors, sent, ncalls, store, ads>>

TransformCampaign ==
    /\ op = "transform_campaign"
    /\ ret = Pending
    /\ ret' = Returned(transform_internal_to_platform_format(arg.platform, arg.campaign_data))
    /\ UNCHANGED <<op, arg, connectors, sent, ncalls, store, ads>>

AnalyzeProduct ==
    /\ op = "analyze_product_listing"
    /\ ret = Pending
    /\ ret' = analyze_product_listing(arg.analysis_text, arg.detailed, arg.detailed_analysis)
    /\ UNCHANGED <<op, arg, connectors, sent, ncalls, store, ads>>

AnalyzeCheckout ==
    /\ op = "analyze_checkout_process"
    /\ ret = Pending
    /\ ret' = analyze_checkout_process(arg.analysis_text, arg.request)
    /\ UNCHANGED <<op, arg, connectors, sent, ncalls, store, ads>>

GeneratePage ==
    /\ op = "generate_page_content"
    /\ ret = Pending
    /\ ret' = generate_page_content(arg.content, arg.request)
    /\ UNCHANGED <<op, arg, connectors, sent, ncalls, store, ads>>

GenerateBlog ==
    /\ op = "generate_blog_content"
    /\ ret = Pending
    /\ ret' = generate_blog_content(arg.content, arg.request)
    /\ UNCHANGED <<op, arg, connectors, sent, ncalls, store, ads>>

GenerateEmail ==
    /\ op = "generate_email_content_ai"
    /\ ret = Pending
    /\ ret' = generate_email_content_ai(arg.content, arg.request)
    /\ UNCHANGED <<op, arg, connectors, sent, ncalls, store, ads>>

GenerateSocial ==
    /\ op = "generate_social_content"
    /\ ret = Pending
    /\ ret' = generate_social_content(arg.content, arg.request)
    /\ UNCHANGED <<op, arg, connectors, sent, ncalls, store, ads>>

Next ==
    \/ TransformContent
    \/ TransformCampaign
    \/ AnalyzeProduct
    \/ AnalyzeCheckout
    \/ GeneratePage
    \/ GenerateBlog
    \/ GenerateEmail
    \/ GenerateSocial
    \/ InitializeConnector
    \/ PublishContent
    \/ ScheduleContent
    \/ NextCall
    \/ PublishContentToPlatform
    \/ ScheduleContentOnPlatform
    \/ GetContentInsights
    \/ GetContentPerformance
    \/ DeleteContentFromPlatform
    \/ SyncContentWithPlatform
    \/ GetContent
    \/ GenerateSocialMediaPost
    \/ NextRequest
    \/ CreatePlatformCampaign
    \/ NextCampaignRequest

Spec == Init /\ [][Next]_vars

Done == "raised" \in DOMAIN ret

IsTwitterCall ==
    op = "transform_content" /\ Lower(arg.platform) \in {"twitter", "x"}

IsMetaCampaignCall ==
    op = "transform_campaign" /\ Lower(arg.platform) \in {"meta", "facebook"}

IsGoogleCampaignCall ==
    op = "transform_campaign" /\ Lower(arg.platform) = "google"

\* units is the fraction budget * factor truncated toward zero.
IsTruncationOf(units, budget, factor) ==
    IF budget.num >= 0
    THEN /\ units >= 0
         /\ units * budget.den <= budget.num * factor
         /\ budget.num * factor < (units + 1) * budget.den
    ELSE /\ units <= 0
         /\ (units - 1) * budget.den < budget.num * factor
         /\ budget.num * factor <= units * budget.den

(***************************************************************************)
(* C1: for every content and every hashtag list the Twitter/X transform    *)
(* returns a text of at most 280 characters.                               *)
(***************************************************************************)
C1_TwitterTextWithinLimit ==
    (IsTwitterCall /\ Done /\ "text" \in DOMAIN ret.value) =>
        Len(ret.value.text) <= TwitterLimit

(***************************************************************************)
(* C2: for every platform name and every campaign the campaign transform   *)
(* yields a payload whose status is "PAUSED".                              *)
(***************************************************************************)
C2_EveryCampaignPaused ==
    (op = "transform_campaign" /\ Done) =>
        ("status" \in DOMAIN ret.value /\ ret.value.status = "PAUSED")

(***************************************************************************)
(* C9: the Meta Ads transform sets daily_budget to the budget times 100,   *)
(* truncated to an integer; a budget of 12.5 gives exactly 1250.           *)
(***************************************************************************)
C9_MetaDailyBudget ==
    (IsMetaCampaignCall /\ Done) =>
        LET budget == arg.campaign_data.budget
            cents  == ret.value.daily_budget
        IN /\ IsTruncationOf(cents, budget, 100)
           /\ (budget.num * 2 = 25 * budget.den => cents = 1250)

C9_Witness ==
    /\ IsMetaCampaignCall /\ Done
    /\ arg.campaign_data.budget = Rat(25, 2)
    /\ ret.value.daily_budget = 1250

(***************************************************************************)
(* C10: the Google Ads transform sets campaign_budget.amount_micros to the *)
(* budget times 1,000,000, truncated to an integer; a budget of 3.0 gives  *)
(* exactly 3000000.                                                        *)
(***************************************************************************)
C10_GoogleAmountMicros ==
    (IsGoogleCampaignCall /\ Done) =>
        LET budget == arg.campaign_data.budget
            micros == ret.value.campaign_budget.amount_micros
        IN /\ IsTruncationOf(micros, budget, 1000000)
           /\ (budget.num = 3 * budget.den => micros = 3000000)

C10_Witness ==
    /\ IsGoogleCampaignCall /\ Done
    /\ arg.campaign_data.budget = Rat(3, 1)
    /\ ret.value.campaign_budget.amount_micros = 3000000

IsAnalysisCall == op \in {"analyze_product_listing", "analyze_checkout_process"}

DefaultScoreOf(flow) ==
    IF flow = "analyze_product_listing" THEN Rat(70, 1) ELSE Rat(65, 1)

\* Some whitespace-delimited token of s is made of digits and dots only.
HasNumericToken(s) ==
    \E i \in 1..Len(SplitWs(s)) :
        LET t == SplitWs(s)[i]
        IN /\ \A k \in 1..Len(t) : IsDigitChar(CharAt(t, k)) \/ CharAt(t, k) = "."
           /\ \E k \in 1..Len(t) : IsDigitChar(CharAt(t, k))

\* No numeric token in the 30 characters after the first "score", or no "score".
NoScoreInText(text) ==
    LET at == Find(Lower(text), "score")
    IN at = -1 \/ ~HasNumericToken(PySlice(text, at + 5, at + 35))

NumSections(text) == Len(SplitOn(text, "\n\n"))

(***************************************************************************)
(* C3: whenever product or checkout analysis returns a result, its score   *)
(* lies between 0 and 100, whatever number the text carried.               *)
(***************************************************************************)
C3_ScoreInRange ==
    (IsAnalysisCall /\ Done /\ ~ret.raised) =>
        /\ RatLeq(Rat(0, 1), ret.value.score)
        /\ RatLeq(ret.value.score, Rat(100, 1))

C3_Witness ==
    /\ IsAnalysisCall /\ Done /\ ~ret.raised
    /\ Contains(arg.analysis_text, ": 150 of 100")
    /\ ret.value.score = Rat(100, 1)

(***************************************************************************)
(* C4: a text with no numeric token in the 30 characters after the first   *)
(* "score", or with no "score" at all, gives score 70 in product analysis  *)
(* and 65 in checkout analysis.                                            *)
(***************************************************************************)
C4_DefaultScoreWhenNoneParsed ==
    (IsAnalysisCall /\ Done /\ ~ret.raised /\ NoScoreInText(arg.analysis_text)) =>
        ret.value.score = DefaultScoreOf(op)

(***************************************************************************)
(* C5: score extraction never raises, whatever the tokens after "score".   *)
(***************************************************************************)
C5_ScoreExtractionNeverRaises ==
    (IsAnalysisCall /\ Done /\ ret.raised) => ret.error # "ValueError"

(***************************************************************************)
(* C6: with fewer than 4 blank-line-separated sections the analysis still  *)
(* returns a result, the lists of the absent sections being empty; it does *)
(* not fail on the absent section index.                                   *)
(***************************************************************************)
C6_MissingSectionsGiveEmptyLists ==
    (IsAnalysisCall /\ Done /\ NumSections(arg.analysis_text) < 4) =>
        ~(ret.raised /\ ret.error = "IndexError")

IsPageCall == op = "generate_page_content"

\* The blob holds a closed, non-empty fenced block of the language.
HasNonEmptyBlock(blob, lang) ==
    LET open  == Find(blob, Fence \o lang)
        rest  == PySuffix(blob, open + Len(Fence \o lang))
        close == Find(rest, Fence)
    IN open # -1 /\ close # -1 /\ Strip(PyPrefix(rest, close)) # ""

(***************************************************************************)
(* C7: for a blob with an html, a css and a javascript fenced block, the   *)
(* returned html contains a style block and a script block and begins with *)
(* the doctype declaration, whatever the html block holds.                 *)
(***************************************************************************)
C7_AllBlocksGiveFullDocument ==
    (/\ IsPageCall /\ Done
     /\ HasNonEmptyBlock(arg.content, "html")
     /\ HasNonEmptyBlock(arg.content, "css")
     /\ HasNonEmptyBlock(arg.content, "javascript")) =>
        /\ ~ret.raised
        /\ Contains(ret.value.html, "<style>")
        /\ Contains(ret.value.html, "<script>")
        /\ StartsWith(ret.value.html, Doctype)

(***************************************************************************)
(* C8: for every blob the returned html is non-empty, and when no          *)
(* non-empty html fenced block was found the html holds the entire blob.   *)
(***************************************************************************)
C8_HtmlNeverEmpty ==
    (IsPageCall /\ Done) =>
        /\ ~ret.raised
        /\ Len(ret.value.html) > 0
        /\ (~HasNonEmptyBlock(arg.content, "html") =>
                Contains(ret.value.html, arg.content))

C8_Witness ==
    /\ IsPageCall /\ Done
    /\ arg.content = "<p>Plain reply</p>"
    /\ Contains(ret.value.html, "<body>\n<p>Plain reply</p>\n</body>")

IsContentCall == op = "transform_content"

IsCampaignCall == op = "transform_campaign"

ModelledContentPlatforms ==
    {"facebook", "instagram", "meta", "twitter", "x", "linkedin", "tiktok", "shopify"}

ModelledCampaignPlatforms == {"facebook", "instagram", "meta", "google"}

(***************************************************************************)
(* C11: for a platform name that is not explicitly modelled neither        *)
(* transform raises; the content transform returns exactly {text: the      *)
(* content, title: the title, original_data: the input} and the campaign   *)
(* transform returns the campaign with every field unchanged.              *)
(***************************************************************************)
C11_UnknownPlatformPassthrough ==
    /\ (IsContentCall /\ Done /\ Lower(arg.platform) \notin ModelledContentPlatforms) =>
          /\ ~ret.raised
          /\ DOMAIN ret.value = {"text", "title", "original_data"}
          /\ ret.value.text = Get(arg.content_data, "content", "")
          /\ ret.value.title = Get(arg.content_data, "title", "")
          /\ ret.value.original_data = arg.content_data
    /\ (IsCampaignCall /\ Done /\ Lower(arg.platform) \notin ModelledCampaignPlatforms) =>
          /\ ~ret.raised
          /\ ret.value = arg.campaign_data

C11_Witness ==
    /\ IsContentCall /\ Done
    /\ arg.platform = "pinterest"
    /\ ret.value.text = "New arrivals"
    /\ ret.value.title = "Launch"

(***************************************************************************)
(* C12: the content transform selects its mapping case-insensitively: any  *)
(* casing of facebook, instagram or meta gives the Meta payload (message,  *)
(* platform), any casing of twitter or x gives the Twitter payload (text). *)
(***************************************************************************)
C12_ContentPlatformCaseInsensitive ==
    (IsContentCall /\ Done /\ ~JoinRaises(Get(arg.content_data, "hashtags", <<>>))) =>
        /\ Lower(arg.platform) \in {"facebook", "instagram", "meta"} =>
              /\ {"message", "platform"} \subseteq DOMAIN ret.value
              /\ DOMAIN ret.value \subseteq {"message", "platform", "link", "media"}
              /\ ret.value.platform = Lower(arg.platform)
        /\ Lower(arg.platform) \in {"twitter", "x"} =>
              /\ "text" \in DOMAIN ret.value
              /\ DOMAIN ret.value \subseteq {"text", "media"}
        /\ ret.value = transform_content_for_platform(Lower(arg.platform), arg.content_data)

C12_Witness ==
    /\ IsContentCall /\ Done
    /\ arg.platform = "META"
    /\ "platform" \in DOMAIN ret.value
    /\ ret.value.platform = "meta"
    /\ ret.value.message = "New arrivals\n\n#new #shop"

(***************************************************************************)
(* C13: the campaign transform routes facebook, instagram and meta, in any *)
(* letter case, to the Meta Ads mapping: all three give a payload with     *)
(* objective, status, daily_budget and targeting.                          *)
(***************************************************************************)
C13_CampaignMetaAliases ==
    (IsCampaignCall /\ Done /\ Lower(arg.platform) \in {"facebook", "instagram", "meta"}) =>
        {"objective", "status", "daily_budget", "targeting"} \subseteq DOMAIN ret.value

(***************************************************************************)
(* C14: the Meta Ads gender mapping gives [1] for "male", [2] for          *)
(* "female", and [1, 2] for "all", for an absent gender and for every      *)
(* other value.                                                            *)
(***************************************************************************)
C14_GenderMapping ==
    (IsMetaCampaignCall /\ Done) =>
        LET audience == arg.campaign_data.target_audience
            genders  == ret.value.targeting.genders
        IN IF "gender" \notin DOMAIN audience THEN genders = <<1, 2>>
           ELSE /\ audience.gender = "male" => genders = <<1>>
                /\ audience.gender = "female" => genders = <<2>>
                /\ audience.gender \notin {"male", "female"} => genders = <<1, 2>>

C14_Witness ==
    /\ IsMetaCampaignCall /\ Done
    /\ "gender" \in DOMAIN arg.campaign_data.target_audience
    /\ arg.campaign_data.target_audience.gender = "Male"
    /\ ret.value.targeting.genders = <<1, 2>>

(***************************************************************************)
(* C15: every content transform and every campaign transform leaves its    *)
(* input record unchanged, nested fields included, for every platform.     *)
(***************************************************************************)
C15_InputRecordUnchanged ==
    [][(op \in {"transform_content", "transform_campaign"}) => arg' = arg]_vars

C15_Witness ==
    /\ IsContentCall /\ Done
    /\ arg.platform = "facebook"
    /\ HasItems(arg.content_data, "hashtags")
    /\ arg.content_data.content = "New arrivals"
    /\ ret.value.message = "New arrivals\n\n#new #shop"

IsPublishCall == op = "publish_content"

\* The request that publishes this call's record, if one was made.
PublishRequests ==
    {i \in 1..Len(sent) :
        /\ sent[i].url = "/api/integrations/" \o arg.platform \o "/publish-content"
        /\ sent[i].data.content = arg.content_data}

(***************************************************************************)
(* C16: when a content transform fails on an unexpected type in the record *)
(* (a hashtag that is not a string), transform_content_for_platform ends   *)
(* with an error and returns no payload, and publish_content sends nothing *)
(* to the gateway for that record.                                         *)
(***************************************************************************)
C16_TransformFailureSurfaced ==
    /\ (IsContentCall /\ Done
          /\ ContentTransformRaises(Lower(arg.platform), arg.content_data)) => ret.raised
    /\ (IsPublishCall /\ Done
          /\ ContentTransformRaises(Lower(arg.platform), arg.content_data)) =>
             /\ ret.raised
             /\ PublishRequests = {}

\* The lines of a section that are kept, by their position in the section.
KeptLines(section, label) ==
    LET raw == SplitOn(section, "\n")
    IN {i \in 1..Len(raw) :
          Strip(raw[i]) # "" /\ ~StartsWith(Lower(Strip(raw[i])), label)}

\* list is the first cap kept lines of the section, trimmed and in order.
IsSectionList(list, section, label, cap) ==
    LET raw  == SplitOn(section, "\n")
        kept == KeptLines(section, label)
    IN /\ Len(list) = Min(cap, Cardinality(kept))
       /\ \A j \in 1..Len(list) :
             \E i \in kept : /\ Cardinality({k \in kept : k < i}) = j - 1
                             /\ list[j] = Strip(raw[i])

(***************************************************************************)
(* C17: for an analysis text with at least 4 blank-line-separated sections *)
(* strengths, weaknesses and recommendations are taken from sections 1, 2  *)
(* and 3 (counted from 0): each is the trimmed non-empty lines of its      *)
(* section, in order, without the lines whose lowercase form starts with   *)
(* the section's label word, cut to at most 3, 3 and 5 entries.            *)
(***************************************************************************)
C17_ListsFromSections ==
    (IsAnalysisCall /\ Done /\ ~ret.raised /\ NumSections(arg.analysis_text) >= 4) =>
        LET sections == SplitOn(arg.analysis_text, "\n\n")
        IN /\ IsSectionList(ret.value.strengths, sections[2], "strength", 3)
           /\ IsSectionList(ret.value.weaknesses, sections[3], "weakness", 3)
           /\ IsSectionList(ret.value.recommendations, sections[4], "recommendation", 5)

C17_Witness ==
    /\ IsAnalysisCall /\ Done /\ ~ret.raised
    /\ NumSections(arg.analysis_text) = 5
    /\ ret.value.strengths = <<"- Clear title", "- Fair price", "- Fast">>
    /\ ret.value.weaknesses = <<"5">>
    /\ ret.value.recommendations = <<"1", "2", "3", "4", "5">>

IsBlogCall == op = "generate_blog_content"

IsEmailCall == op = "generate_email_content_ai"

\* The lines of the generated text whose lowercase form starts with "title:".
TitleLines(content) ==
    LET lines == SplitOn(content, "\n")
    IN {i \in 1..Len(lines) : StartsWith(Lower(lines[i]), "title:")}

IsLineOf(line, content) ==
    \E i \in 1..Len(SplitOn(content, "\n")) : SplitOn(content, "\n")[i] = line

(***************************************************************************)
(* C18: in blog generation with no caller-supplied title, when the         *)
(* generated text has a line whose lowercase form starts with "title:",    *)
(* the returned title is the part of that line after the first colon,      *)
(* trimmed, and that line does not appear in the returned content.         *)
(***************************************************************************)
C18_ExplicitTitleLine ==
    (IsBlogCall /\ Done /\ arg.request.title = "" /\ TitleLines(arg.content) # {}) =>
        LET lines == SplitOn(arg.content, "\n")
            first == CHOOSE i \in TitleLines(arg.content) :
                        \A j \in TitleLines(arg.content) : i <= j
        IN /\ ret.value.title = Strip(AfterFirst(lines[first], ":"))
           /\ ~IsLineOf(lines[first], ret.value.content)

\* Non-blank lines that are not headings, and markdown heading lines.
BodyLines(content) ==
    LET lines == SplitOn(content, "\n")
    IN {i \in 1..Len(lines) : Strip(lines[i]) # "" /\ ~StartsWith(lines[i], "#")}

HeadingLines(content) ==
    LET lines == SplitOn(content, "\n")
    IN {i \in 1..Len(lines) : StartsWith(lines[i], "# ")}

Lowest(S) == CHOOSE i \in S : \A j \in S : i <= j

(***************************************************************************)
(* C19: in blog generation with no caller-supplied title and no explicit   *)
(* title line, the returned title is the first non-empty line that is not  *)
(* a heading; if every non-empty line is a heading it is the first         *)
(* markdown heading line with its leading "# " removed; if there is none   *)
(* it is the default title built from the topic.  A caller-supplied title  *)
(* is always returned unchanged.                                           *)
(***************************************************************************)
C19_TitleFallbacks ==
    (IsBlogCall /\ Done) =>
        LET content == arg.content
            lines   == SplitOn(content, "\n")
        IN IF arg.request.title # "" THEN ret.value.title = arg.request.title
           ELSE IF TitleLines(content) # {} THEN TRUE
           ELSE IF BodyLines(content) # {}
                THEN ret.value.title = Strip(lines[Lowest(BodyLines(content))])
           ELSE IF HeadingLines(content) # {}
                THEN ret.value.title = Strip(PySuffix(lines[Lowest(HeadingLines(content))], 2))
           ELSE ret.value.title = "Blog Post About " \o arg.request.topic

\* The email call scans for a subject: none was supplied and the label occurs.
ScansSubject ==
    /\ IsEmailCall /\ Done
    /\ arg.request.subject_line = ""
    /\ Contains(Lower(arg.content), "subject")

DefaultSubject == Capitalize(arg.request.email_type) \o " Email: " \o arg.request.topic

\* The scan from the label up to the first occurrence of stop (or the end
\* of the text) and what is left of the text when the span and cut more
\* characters are taken out.
SpanFrom(content, stop) ==
    LET start == Find(Lower(content), "subject")
        Ends  == {e \in start..(Len(content) - Len(stop)) :
                     SubSeq(content, e + 1, e + Len(stop)) = stop}
        end   == IF Ends = {} THEN Len(content) ELSE Lowest(Ends)
    IN [text |-> PySlice(content, start, end),
        before |-> PyPrefix(content, start),
        after |-> PySuffix(content, end)]

ValueAfterColon(text) ==
    IF Contains(text, ":") THEN Strip(AfterFirst(text, ":")) ELSE text

\* The lines that do not start with "subject:", joined again and trimmed.
WithoutSubjectLines(content) ==
    LET lines == SplitOn(content, "\n")
        Kept  == {i \in 1..Len(lines) : ~StartsWith(Lower(lines[i]), "subject:")}
        kept  == [j \in 1..Cardinality(Kept) |->
                    lines[CHOOSE i \in Kept : Cardinality({k \in Kept : k < i}) = j - 1]]
    IN Strip(Join("\n", kept))

(***************************************************************************)
(* C20 as stated: in email generation with no caller-supplied subject      *)
(* line, the subject is everything after the first colon in the span from  *)
(* the "subject" label up to the next blank line (or the end of the text), *)
(* and that whole span is removed from the returned content.               *)
(***************************************************************************)
C20_SubjectSpanToBlankLine ==
    ScansSubject =>
        LET span  == SpanFrom(arg.content, "\n\n")
            value == ValueAfterColon(span.text)
        IN /\ ret.value.subject = (IF value = "" THEN DefaultSubject ELSE value)
           /\ ret.value.content = WithoutSubjectLines(span.before \o span.after)

(***************************************************************************)
(* C20 as the code has it: the span runs from the first occurrence of      *)
(* "subject" (in any letter case) up to the next line break (or the end of *)
(* the text); the subject is the trimmed text after the first colon in the *)
(* span, the span itself when it has no colon, and the default subject     *)
(* when that is empty; the span and the line break that ends it are cut    *)
(* from the text, which is returned without its lines starting with        *)
(* "subject:" and trimmed.                                                 *)
(***************************************************************************)
C20_SubjectSpanToLineEnd ==
    ScansSubject =>
        LET span  == SpanFrom(arg.content, "\n")
            value == ValueAfterColon(span.text)
        IN /\ ret.value.subject = (IF value = "" THEN DefaultSubject ELSE value)
           /\ ret.value.content = WithoutSubjectLines(span.before \o PySuffix(span.after, 1))

C20_Witness ==
    /\ ScansSubject
    /\ arg.content = "Hi team\nSubject: Big sale\nHello there\n\nBody"
    /\ ret.value.subject = "Big sale"
    /\ ret.value.content = "Hi team\nHello there\n\nBody"

\* The span from the "meta description" label up to the next blank line (or
\* the end of the text), with the text before it and the text from its end.
MetaSpanOf(content) ==
    LET start == Find(Lower(content), "meta description")
        Ends  == {e \in start..(Len(content) - 2) : SubSeq(content, e + 1, e + 2) = "\n\n"}
        end   == IF Ends = {} THEN Len(content) ELSE Lowest(Ends)
    IN [text |-> PySlice(content, start, end),
        before |-> PyPrefix(content, start),
        after |-> PySuffix(content, end)]

\* The lines that start with none of the blog labels, joined and trimmed.
WithoutLabelLines(content) ==
    LET lines == SplitOn(content, "\n")
        Kept  == {i \in 1..Len(lines) :
                     /\ ~StartsWith(Lower(lines[i]), "title:")
                     /\ ~StartsWith(Lower(lines[i]), "meta description:")
                     /\ ~StartsWith(Lower(lines[i]), "keywords:")}
        kept  == [j \in 1..Cardinality(Kept) |->
                    lines[CHOOSE i \in Kept : Cardinality({k \in Kept : k < i}) = j - 1]]
    IN Strip(Join("\n", kept))

(***************************************************************************)
(* C21: in blog generation with a meta description requested, the meta     *)
(* description is everything after the first colon (trimmed) in the span   *)
(* from the "meta description" label to the next blank line or the end of  *)
(* the text, and that whole span is cut from the returned content; when    *)
(* no meta description is requested the returned one is empty (None).      *)
(***************************************************************************)
C21_MetaDescriptionSpan ==
    (IsBlogCall /\ Done) =>
        IF ~arg.request.include_meta_description
        THEN ret.value.meta_description = NoneStr
        ELSE Contains(Lower(arg.content), "meta description") =>
                LET span == MetaSpanOf(arg.content)
                IN /\ Contains(span.text, ":") =>
                         ret.value.meta_description = Strip(AfterFirst(span.text, ":"))
                   /\ ret.value.content = WithoutLabelLines(span.before \o span.after)

C21_Witness ==
    /\ IsBlogCall /\ Done
    /\ arg.request.include_meta_description
    /\ arg.content = "## Guide\nIntro line\nMore text\n\nMeta description: Save big\non shoes\n\nKeywords: a, b"
    /\ ret.value.meta_description = "Save big\non shoes"
    /\ ret.value.content = "## Guide\nIntro line\nMore text"

IsSocialCall == op = "generate_social_content"

\* The positions, among the whitespace-delimited tokens, of those that begin
\* with "#".
TagTokens(content) ==
    {i \in 1..Len(SplitWs(content)) : StartsWith(SplitWs(content)[i], "#")}

(***************************************************************************)
(* C22: in social content generation, when hashtags are requested the      *)
(* returned hashtag list is exactly the whitespace-delimited tokens of the *)
(* generated content that begin with "#", in their order of appearance;    *)
(* when they are not requested the list is empty whatever the content.     *)
(***************************************************************************)
C22_HashtagsAreTagTokens ==
    (IsSocialCall /\ Done) =>
        LET tokens == SplitWs(arg.content)
            tags   == TagTokens(arg.content)
            list   == ret.value.hashtags
        IN IF ~arg.request.include_hashtags THEN list = <<>>
           ELSE /\ Len(list) = Cardinality(tags)
                /\ \A j \in 1..Len(list) :
                      \E i \in tags : /\ Cardinality({k \in tags : k < i}) = j - 1
                                      /\ list[j] = tokens[i]

C22_Witness ==
    /\ IsSocialCall /\ Done
    /\ arg.request.include_hashtags
    /\ arg.content = "Price is #1 in C# land#not # "
    /\ ret.value.hashtags = <<"#1", "#">>

\* What the claim says a city maps to.
IsMappedCity(mapped, city) ==
    /\ DOMAIN mapped = {"key", "radius", "distance_unit"}
    /\ mapped.key = (IF "key" \in DOMAIN city THEN city.key ELSE city.name)
    /\ mapped.radius = (IF "radius" \in DOMAIN city THEN city.radius ELSE 10)
    /\ mapped.distance_unit = "mile"

(***************************************************************************)
(* C23: the Meta Ads location mapping passes the countries list through    *)
(* unchanged and maps every city to {key: the city's key or else its name, *)
(* radius: the city's radius or else 10, distance_unit: "mile"}, whatever  *)
(* distance_unit the city carried; geo_locations has a countries (or       *)
(* cities) entry only when the input locations have one.                   *)
(***************************************************************************)
C23_LocationMapping ==
    (IsMetaCampaignCall /\ Done) =>
        LET audience  == Get(arg.campaign_data, "target_audience", <<>>)
            locations == Get(audience, "locations", <<>>)
            geo       == ret.value.targeting.geo_locations
        IN /\ DOMAIN geo = DOMAIN locations \cap {"countries", "cities"}
           /\ "countries" \in DOMAIN locations => geo.countries = locations.countries
           /\ "cities" \in DOMAIN locations =>
                 /\ Len(geo.cities) = Len(locations.cities)
                 /\ \A i \in 1..Len(locations.cities) :
                       IsMappedCity(geo.cities[i], locations.cities[i])

C23_Witness ==
    /\ IsMetaCampaignCall /\ Done
    /\ "locations" \in DOMAIN Get(arg.campaign_data, "target_audience", <<>>)
    /\ DOMAIN arg.campaign_data.target_audience.locations = {"cities"}
    /\ Len(arg.campaign_data.target_audience.locations.cities) = 2
    /\ ret.value.targeting.geo_locations =
          [cities |-> <<[key |-> "k2", radius |-> 25, distance_unit |-> "mile"],
                        [key |-> "Nice", radius |-> 10, distance_unit |-> "mile"]>>]

\* The objective table as the claim lists it.
ClaimedMetaObjective(objective) ==
    CASE objective = "awareness" -> "BRAND_AWARENESS"
      [] objective = "traffic" -> "TRAFFIC"
      [] objective = "engagement" -> "ENGAGEMENT"
      [] objective = "leads" -> "LEAD_GENERATION"
      [] objective = "conversions" -> "CONVERSIONS"
      [] objective = "sales" -> "SALES"
      [] OTHER -> "CONVERSIONS"

(***************************************************************************)
(* C24: the Meta Ads campaign transform maps the objective, compared       *)
(* case-insensitively, through the fixed table awareness, traffic,         *)
(* engagement, leads, conversions, sales to BRAND_AWARENESS, TRAFFIC,      *)
(* ENGAGEMENT, LEAD_GENERATION, CONVERSIONS, SALES, and maps every other   *)
(* or missing objective to CONVERSIONS without raising.                    *)
(***************************************************************************)
C24_MetaObjectiveTable ==
    (IsMetaCampaignCall /\ Done) =>
        /\ ~ret.raised
        /\ ret.value.objective =
              ClaimedMetaObjective(Lower(Get(arg.campaign_data, "objective", "")))

C24_Witness ==
    /\ IsMetaCampaignCall /\ Done
    /\ "objective" \in DOMAIN arg.campaign_data
    /\ arg.campaign_data.objective = "Leads"
    /\ ret.value.objective = "LEAD_GENERATION"

IsSendingCall == op \in {"publish_content", "schedule_content"}

\* The request a publish or schedule call for this platform sends.
IsOwnRequest(request) ==
    /\ request.method = "post"
    /\ request.url = "/api/integrations/" \o arg.platform \o
                     (IF op = "publish_content" THEN "/publish-content"
                      ELSE "/schedule-content")

(***************************************************************************)
(* C25: publish_content and schedule_content send a publish or schedule    *)
(* request to the gateway for platform P only if an earlier                *)
(* initialize_connector call for exactly the same platform string P        *)
(* received a connector id; otherwise they raise and send nothing; and a   *)
(* failed initialize_connector leaves the connector table unchanged.  The  *)
(* table starts empty and only a step of initialize_connector for P that   *)
(* returns an id adds P to it, so "P is in the table" is "an earlier       *)
(* initialize_connector for P received an id".                             *)
(***************************************************************************)
C25_SendOnlyThroughConnector ==
    [][/\ connectors' # connectors =>
             /\ op = "initialize_connector" /\ ret = Pending
             /\ ~ret'.raised /\ ret'.value # ""
             /\ DOMAIN connectors' = DOMAIN connectors \cup {arg.platform}
             /\ \A q \in DOMAIN connectors \ {arg.platform} : connectors'[q] = connectors[q]
       /\ (op = "initialize_connector" /\ ret = Pending /\ ret' # Pending
             /\ ret'.value = "") => connectors' = connectors
       /\ (IsSendingCall /\ ret = Pending /\ ret' # Pending) =>
             IF arg.platform \in DOMAIN connectors
             THEN /\ Len(sent') = Len(sent) + 1
                  /\ IsOwnRequest(sent'[Len(sent')])
                  /\ sent'[Len(sent')].data.connector_id = connectors[arg.platform].id
             ELSE ret'.raised /\ sent' = sent]_vars

\* Initialised as "Facebook", published as "facebook": raised, nothing sent.
C25_Witness ==
    /\ op = "publish_content" /\ Done
    /\ arg.platform = "facebook"
    /\ DOMAIN connectors = {"Facebook"}
    /\ ret.raised
    /\ Len(sent) = 1

\* The endpoints that take a content id and talk to the gateway.
ContentIdEndpoints ==
    {"publish_content_to_platform", "schedule_content_on_platform",
     "sync_content_with_platform", "get_content_insights",
     "get_content_performance", "delete_content_from_platform"}

\* A step that serves the pending request.
Serves == ret = Pending /\ ret' # Pending

(***************************************************************************)
(* C26: the content platform endpoints (publish, schedule, sync, insights, *)
(* performance, delete) answer a request naming a content id that is not   *)
(* in the store with a 404 not-found status, and make no gateway call.     *)
(***************************************************************************)
C26_UnknownContentIs404 ==
    [][(op \in ContentIdEndpoints /\ Serves /\ ~Found(arg.content_id)) =>
          /\ ret'.raised
          /\ ret'.status = 404
          /\ sent' = sent]_vars

IsSocialPost == op = "generate_social_media_post"

\* The gateway answered the post's publish or schedule request with a post id.
ReturnedPostId ==
    /\ sent # <<>>
    /\ TruthyStr(Get(sent[Len(sent)].response, "id", NoneStr))

(***************************************************************************)
(* C27: in the social post endpoint a failure of the platform publish or   *)
(* schedule call never fails the request: the generated content is stored  *)
(* and returned with success; published_to_platform is true exactly when   *)
(* the platform returned a post id, and the stored record receives         *)
(* platform_post_id and published_to_platform only in that case.           *)
(***************************************************************************)
C27_PlatformFailureNeverFailsPost ==
    (IsSocialPost /\ Done) =>
        /\ ~ret.raised
        /\ ret.value.success
        /\ ret.value.content = arg.content
        /\ ret.value.content_id \in DOMAIN store.generated_content
        /\ LET record == store.generated_content[ret.value.content_id]
           IN /\ record.content = arg.content
              /\ ret.value.published_to_platform = ReturnedPostId
              /\ ("platform_post_id" \in DOMAIN record) = ReturnedPostId
              /\ ("published_to_platform" \in DOMAIN record) = ReturnedPostId
              /\ ReturnedPostId =>
                    /\ record.platform_post_id = sent[Len(sent)].response.id
                    /\ record.published_to_platform

\* A connector is there and the gateway gave no answer: stored, success,
\* not published.
C27_Witness ==
    /\ IsSocialPost /\ Done
    /\ arg.request.publish_to_platform
    /\ sent # <<>>
    /\ sent[Len(sent)].response = None
    /\ ret.value.success
    /\ ~ret.value.published_to_platform
    /\ "platform_post_id" \notin DOMAIN store.generated_content[ret.value.content_id]

\* How many of the whitespace-delimited tokens of text are tag.
Occurrences(tag, text) ==
    Cardinality({i \in 1..Len(SplitWs(text)) : SplitWs(text)[i] = tag})

\* The text of a transformed post: Meta's message, Twitter's and LinkedIn's
\* text, TikTok's caption.
PostText(platform_content) ==
    IF "message" \in DOMAIN platform_content THEN platform_content.message
    ELSE IF "text" \in DOMAIN platform_content THEN platform_content.text
    ELSE platform_content.caption

(***************************************************************************)
(* C30: in the social publish flow (generate_social_content, then the      *)
(* Meta, LinkedIn, TikTok or Twitter transform) every extracted hashtag    *)
(* appears exactly once in the text sent to the platform.                  *)
(***************************************************************************)
C30_HashtagsSentOnce ==
    (IsSocialPost /\ Done /\ sent # <<>>) =>
        \A i \in 1..Len(ret.value.hashtags) :
            Occurrences(ret.value.hashtags[i],
                        PostText(sent[Len(sent)].data.content)) = 1

\* The record is marked neither published nor scheduled.
OffPlatform(record) ==
    /\ ("published_to_platform" \in DOMAIN record => ~record.published_to_platform)
    /\ ("scheduled_for_platform" \in DOMAIN record => ~record.scheduled_for_platform)

\* The endpoints that need the content to be on the platform.
OnPlatformEndpoints ==
    {"delete_content_from_platform", "get_content_insights", "get_content_performance"}

\* The endpoints that publish or schedule a stored content.
PublishingEndpoints ==
    {"publish_content_to_platform", "schedule_content_on_platform",
     "sync_content_with_platform"}

(***************************************************************************)
(* C28: after delete_content_from_platform succeeds the record has         *)
(* published_to_platform false and scheduled_for_platform false, and every *)
(* later delete, insights or performance request for it is rejected        *)
(* without a gateway call until the content is published or scheduled      *)
(* again; a delete the gateway does not confirm leaves the record          *)
(* unchanged.  In steps: a successful delete leaves both marks false; a    *)
(* record with both marks false keeps them false in every step that is not *)
(* a publish, schedule or sync request for it; a delete, insights or       *)
(* performance request for such a record is rejected, sends nothing and    *)
(* changes nothing; a delete whose request the gateway answered without    *)
(* confirming is rejected and changes nothing.                             *)
(***************************************************************************)
C28_DeletedStaysOffPlatform ==
    [][/\ (op = "delete_content_from_platform" /\ Serves /\ ~ret'.raised) =>
             /\ Found(arg.content_id)
             /\ OffPlatform(store'.generated_content[arg.content_id])
             /\ "published_to_platform" \in
                     DOMAIN store'.generated_content[arg.content_id]
             /\ "scheduled_for_platform" \in
                     DOMAIN store'.generated_content[arg.content_id]
       /\ \A c \in DOMAIN store.generated_content :
             (/\ OffPlatform(store.generated_content[c])
              /\ ~OffPlatform(store'.generated_content[c])) =>
                 /\ op \in PublishingEndpoints /\ Serves
                 /\ arg.content_id = c
       /\ (/\ op \in OnPlatformEndpoints /\ Serves /\ Found(arg.content_id)
           /\ OffPlatform(store.generated_content[arg.content_id])) =>
                 /\ ret'.raised
                 /\ sent' = sent
                 /\ store' = store
       /\ (/\ op = "delete_content_from_platform" /\ Serves
           /\ Len(sent') > Len(sent)
           /\ ~Get(sent'[Len(sent')].response, "success", FALSE)) =>
                 /\ ret'.raised
                 /\ store' = store]_vars

\* The delete was confirmed, and the insights, performance or delete request
\* that came next was rejected: the delete request is the only one sent.
C28_Witness ==
    /\ op \in OnPlatformEndpoints /\ Done
    /\ ncalls = 2
    /\ Found(arg.content_id)
    /\ Get(store.generated_content[arg.content_id], "deleted_from_platform", FALSE)
    /\ OffPlatform(store.generated_content[arg.content_id])
    /\ ret.raised
    /\ Len(sent) = 1
    /\ sent[1].method = "delete"
    /\ Get(sent[1].response, "success", FALSE)

\* The campaign-creation requests the step sends ...
CreationsSent ==
    {i \in (Len(sent) + 1)..Len(sent') :
        sent'[i].url = "/api/integrations/" \o arg.platform \o "/campaigns"}

\* ... and whether the gateway answered one of them with a campaign id.
ReturnedCampaignId ==
    \E i \in CreationsSent :
        /\ sent'[i].response # None
        /\ sent'[i].response.status_code = 200
        /\ TruthyStr(Get(sent'[i].response.json, "id", NoneStr))

(***************************************************************************)
(* C29: create_platform_campaign reports status "published" exactly when   *)
(* the gateway returned a platform campaign id, and "draft" with no        *)
(* platform_campaign_id otherwise; when publish_to_platform is false it    *)
(* sends no campaign-creation request to the gateway; and the stored       *)
(* record gets a platform_campaign_id only after the gateway returned one. *)
(***************************************************************************)
C29_PublishedIffCampaignId ==
    [][(op = "create_platform_campaign" /\ Serves) =>
          /\ ~ret'.raised
          /\ ret'.value.status = (IF ReturnedCampaignId THEN "published" ELSE "draft")
          /\ ~ReturnedCampaignId => ret'.value.platform_campaign_id = NoneStr
          /\ ~arg.publish_to_platform => CreationsSent = {}
          /\ \A c \in DOMAIN ads'.ad_campaigns \ DOMAIN ads.ad_campaigns :
                "platform_campaign_id" \in DOMAIN ads'.ad_campaigns[c] =>
                    ReturnedCampaignId]_vars

====
